---- MODULE Spec2Model ----
(***************************************************************************)
(* State-machine model of the session manager of workflow-automation      *)
(* (src/csv-enhanced-cloud/smartscout_session_manager.py): the persisted  *)
(* session document, create/load/save, and the batch scheduler run_session *)
(* with its resume handling, batches and retry phases.                     *)
(*                                                                         *)
(* Abstractions: timestamps are dropped (last_attempt keeps only which     *)
(* steps were stamped, completed_at only whether it is stamped); strings   *)
(* are drawn from a small alphabet with strip()/lower() given as tables;   *)
(* the three step executors are external and return any of their result    *)
(* codes, raise, or are cut short by a KeyboardInterrupt.                  *)
(***************************************************************************)
EXTENDS Integers, Sequences, FiniteSets, TLC

----------------------------------------------------------------------------
(* Bounds *)

\* longest inline brand list (number of comma-separated pieces)
MaxSource == 2
\* run_session is not started again once failed_brands has reached this value
MaxFailed == 1
\* number of brands of the session whose batches are followed item by item
BatchLen == 6

----------------------------------------------------------------------------
(* Strings *)

\* pieces that can appear between the commas of an inline brand list
Tokens == {"Acme", " acme", ""}
\* cells of the brand column of a tabular source; "NaN" is a missing cell
CsvCells == {"Beta", "NaN"}

\* str.strip()
Strip(t) ==
  CASE t = " Acme" -> "Acme"
    [] t = " acme" -> "acme"
    [] OTHER       -> t

\* str.lower()
Lower(t) ==
  CASE t = "Acme"  -> "acme"
    [] t = " Acme" -> " acme"
    [] t = "_Acme" -> "_acme"
    [] t = "Beta"  -> "beta"
    [] t = "A b"   -> "a b"
    [] t = "A_b"   -> "a_b"
    [] OTHER       -> t

\* str.replace(' ', '_')
Underscore(t) ==
  CASE t = " Acme" -> "_Acme"
    [] t = " acme" -> "_acme"
    [] t = "A b"   -> "A_b"
    [] t = "a b"   -> "a_b"
    [] OTHER       -> t

----------------------------------------------------------------------------
(* Sequence helpers *)

Range(s) == {s[i] : i \in 1..Len(s)}

\* [x for x in s if keep(x)]
RECURSIVE FilterSeq(_, _)
FilterSeq(s, keep) ==
  IF s = <<>> THEN <<>>
  ELSE IF Head(s) \in keep THEN <<Head(s)>> \o FilterSeq(Tail(s), keep)
       ELSE FilterSeq(Tail(s), keep)

\* keys of a dict built by inserting the elements of s in order:
\* a repeated key keeps its first position
RECURSIVE DictKeys(_, _)
DictKeys(s, seen) ==
  IF s = <<>> THEN <<>>
  ELSE IF Head(s) \in seen THEN DictKeys(Tail(s), seen)
       ELSE <<Head(s)>> \o DictKeys(Tail(s), seen \cup {Head(s)})

\* sequences over S of length lo..hi
SeqsOf(S, lo, hi) == UNION {[1..n -> S] : n \in lo..hi}

----------------------------------------------------------------------------
(* BrandStatus, BrandState *)

PENDING == "pending"
COLLECTING == "collecting"
NO_BRAND_FOUND == "no_brand_found"
COLLECTED == "collected"
ANALYZING == "analyzing"
ANALYZED == "analyzed"
DOWNLOADING == "downloading"
DOWNLOADED == "downloaded"
SUMMARIZING == "summarizing"
SUMMARIZED == "summarized"
FAILED == "failed"
SKIPPED == "skipped"

BrandStatus == {PENDING, COLLECTING, NO_BRAND_FOUND, COLLECTED, ANALYZING,
                ANALYZED, DOWNLOADING, DOWNLOADED, SUMMARIZING, SUMMARIZED,
                FAILED, SKIPPED}

\* An in-memory status is either a BrandStatus member (enum = TRUE) or the
\* plain string read from the document (enum = FALSE).
Enum(v) == [enum |-> TRUE, value |-> v]
Str(v) == [enum |-> FALSE, value |-> v]

\* state.status == BrandStatus.X : an Enum member never equals a str
StatusIs(st, v) == st.enum /\ st.value = v

\* state.status in [BrandStatus.X, ...]
StatusIn(st, vs) == st.enum /\ st.value \in vs

\* state.status.value if hasattr(state.status, 'value') else state.status
StatusValue(st) == st.value

Steps == {"collect", "download", "summarize"}

\* BrandState(name=brand_name) after __post_init__
BrandState(n) ==
  [name |-> n, status |-> Enum(PENDING),
   attempts |-> [s \in Steps |-> 0], last_attempt |-> {}, errors |-> <<>>]

----------------------------------------------------------------------------
(* Brand sources and SessionManager._parse_brands_source *)

\* A brands_source argument: an inline comma-separated list (at least one
\* comma, so at least two pieces), a .csv table (readable or not), a .txt
\* file of one line, or a single brand name.
Sources ==
       {[kind |-> "inline", cells |-> c, ok |-> TRUE] : c \in SeqsOf(Tokens, 2, MaxSource)}
  \cup {[kind |-> "csv", cells |-> c, ok |-> TRUE] : c \in SeqsOf(CsvCells, 1, 2)}
  \cup {[kind |-> "csv", cells |-> <<"Beta">>, ok |-> FALSE]}
  \cup {[kind |-> "txt", cells |-> <<t>>, ok |-> TRUE] : t \in {" Acme", ""}}
  \cup {[kind |-> "single", cells |-> <<"Beta">>, ok |-> TRUE]}

\* the brand sources used while exploring the scheduler: a two-brand list
\* and a list with no brand in it
RunSources ==
  {[kind |-> "inline", cells |-> c, ok |-> TRUE] : c \in {<<"Acme", " acme">>, <<"", "">>}}

\* [brand.strip() for brand in pieces if brand.strip()]
StripNonEmpty(cells) ==
  LET stripped == [i \in 1..Len(cells) |-> Strip(cells[i])]
  IN FilterSeq(stripped, Range(stripped) \ {""})

_parse_brands_source(src) ==
  CASE src.kind = "inline" -> StripNonEmpty(src.cells)
    [] src.kind = "csv" ->
         IF src.ok THEN FilterSeq(src.cells, Range(src.cells) \ {"NaN"})
         ELSE <<>>
    [] src.kind = "txt" -> StripNonEmpty(src.cells)
    [] OTHER -> src.cells

\* every brand name a session can hold
Names == UNION {Range(_parse_brands_source(src)) : src \in Sources}

----------------------------------------------------------------------------
(* SessionConfig, SessionState, the session document *)

\* keyword options of create_session
Kwargs == {[headless |-> TRUE, force_regenerate |-> FALSE],
           [headless |-> FALSE, force_regenerate |-> TRUE]}

\* the options passed when create_session is called for an existing session
ReuseKwargs == [headless |-> FALSE, force_regenerate |-> TRUE]

SessionConfig(src, brands_list, kw) ==
  [session_name |-> "s",
   brands_file |-> IF src.kind \in {"csv", "txt"} THEN src ELSE [kind |-> "None"],
   brands_list |-> brands_list,
   headless |-> kw.headless,
   force_regenerate |-> kw.force_regenerate]

\* SessionState(...) after __post_init__: total_brands is always recomputed
\* from the brand map, whatever value was passed in
SessionState(config, keys, brands, completed_at, completed, failed) ==
  [config |-> config, keys |-> keys, brands |-> brands,
   completed_at |-> completed_at,
   total_brands |-> Len(keys),
   completed_brands |-> completed, failed_brands |-> failed]

NoSession == [none |-> TRUE]
NoDoc == [absent |-> TRUE]
\* a state file that open(state_file, 'w') has emptied and json.dump has not
\* finished writing: json.load fails on it
Truncated == [truncated |-> TRUE]
\* the pieces in which json.dump hands the document to the file, taken as
\* its top-level groups of keys; the closing brace comes with the last one
DocParts == <<"config", "brands", "counters">>
\* the state file while json.dump has written the first k pieces of d
Partial(d, k) == [partial |-> k, doc |-> d]
IsPartial(d) == "partial" \in DOMAIN d
\* json.load(f): the document, or a JSONDecodeError for a text that ends
\* before the closing brace
json_load(d) ==
  IF d = Truncated \/ IsPartial(d) THEN [ok |-> FALSE, data |-> NoDoc]
  ELSE [ok |-> TRUE, data |-> d]
\* load_session succeeds on d: the file exists and parses
Loadable(d) == d # NoDoc /\ json_load(d).ok

\* _save_session_state without its "already a string" branch: a status that
\* is not an enum member is not written back as it is
DocOfNoStr(s) ==
  [config |-> s.config, keys |-> s.keys,
   brands |-> [n \in DOMAIN s.brands |->
                 [s.brands[n] EXCEPT !.status =
                    IF s.brands[n].status.enum THEN s.brands[n].status.value
                    ELSE "None"]],
   completed_at |-> s.completed_at,
   total_brands |-> s.total_brands,
   completed_brands |-> s.completed_brands,
   failed_brands |-> s.failed_brands]

\* the JSON document written by _save_session_state: asdict of config and of
\* every brand, enum statuses replaced by their value, string statuses kept
DocOf(s) ==
  [config |-> s.config, keys |-> s.keys,
   brands |-> [n \in DOMAIN s.brands |->
                 [s.brands[n] EXCEPT !.status =
                    IF s.brands[n].status.enum THEN s.brands[n].status.value
                    ELSE s.brands[n].status.value]],
   completed_at |-> s.completed_at,
   total_brands |-> s.total_brands,
   completed_brands |-> s.completed_brands,
   failed_brands |-> s.failed_brands]

\* the session reconstructed by load_session: BrandState(**brand_data) keeps
\* the status as the plain string found in the document
SessionOf(d) ==
  SessionState(d.config, d.keys,
               [n \in DOMAIN d.brands |-> [d.brands[n] EXCEPT !.status = Str(d.brands[n].status)]],
               d.completed_at, d.completed_brands, d.failed_brands)

\* brands dict after "for brand_name in new: if brand_name not in brands: add"
MergedKeys(keys, new) == keys \o DictKeys(new, Range(keys))

\* a merge that re-creates every supplied brand, existing or not
MergeBrandsOverwrite(s, new) ==
  LET keys == MergedKeys(s.keys, new)
  IN [s EXCEPT !.keys = keys,
               !.brands = [n \in Range(keys) |->
                             IF n \in DOMAIN s.brands /\ n \notin Range(new)
                             THEN s.brands[n] ELSE BrandState(n)]]

MergeBrands(s, new) ==
  LET keys == MergedKeys(s.keys, new)
  IN [s EXCEPT !.keys = keys,
               !.brands = [n \in Range(keys) |->
                             IF n \in DOMAIN s.brands THEN s.brands[n] ELSE BrandState(n)]]

\* the session built by the "create new session" branch of create_session
NewSession(src, kw) ==
  LET brands_list == _parse_brands_source(src)
      keys == DictKeys(brands_list, {})
  IN SessionState(SessionConfig(src, brands_list, kw), keys,
                  [n \in Range(keys) |-> BrandState(n)], "null", 0, 0)

----------------------------------------------------------------------------
(* Step executors (external collaborators) *)

\* collect_brand_data(..., return_result=True): a result code, anything else
\* ("error"), an exception ("raise"), or a KeyboardInterrupt ("interrupt")
TriggerOutcomes == {"collected", "analyzing", "analyzed", "no_brand_found",
                    "error", "raise", "interrupt"}

\* download_html_only(..., return_result=True); "none" is a falsy result
FetchOutcomes == {"downloaded", "incomplete", "none", "raise", "interrupt"}

\* minimum summary length accepted by _summarize_step_simple
MinSummaryLen == 100

\* summarize_html: a returned text (empty or None, exactly the minimum
\* length, one character more), an exception, or a KeyboardInterrupt
PostOutcomes == {"empty", "text100", "text101", "raise", "interrupt"}

\* len(summary)
TextLen(out) ==
  CASE out = "text100" -> MinSummaryLen
    [] out = "text101" -> MinSummaryLen + 1
    [] out \in {"Summary one", "Summary two"} -> MinSummaryLen + 50
    [] out = "brief" -> MinSummaryLen - 50
    [] out = "Error generating summary: long message" -> MinSummaryLen + 1
    [] out = "Error generating summary: brief" -> MinSummaryLen - 60
    [] out = "HTML file not found" -> MinSummaryLen - 40
    [] OTHER -> 0

\* return result if result else "failed"
_download_step_simple(out) == IF out = "none" THEN "failed" ELSE out

\* "summarized" if summary and len(summary) > 100 else "failed";
\* an exception inside is swallowed and gives "failed"
_summarize_step_simple(out) ==
  IF out = "raise" THEN "failed"
  ELSE IF out # "empty" /\ TextLen(out) > MinSummaryLen THEN "summarized" ELSE "failed"

----------------------------------------------------------------------------
(* State *)

VARIABLES
  current_session,  \* SessionManager.current_session (NoSession: None)
  state_file,       \* sessions/<name>/session_state.json (NoDoc: absent)
  pc,               \* position of run_session ("idle": not running)
  phase,            \* index 1..4 of the retry phase being run or checked
  batch,            \* the item list selected by the batch that ran last
  idx,              \* 1-based position in batch; 0: nothing selected yet
  lastOp,           \* the last operation called on the manager
  lastArg,          \* the brands_source of that call, if it was create_session
  bkind,            \* the batch that last selected its list ("resume": the re-check loop of resume handling)
  bsnap,            \* every item as it was when that batch selected its list
  bcount,           \* executor calls received by each item in this batch
  lastres,          \* executor outcome of each item in this batch
  ran,              \* executor calls received by each item, per step, since run_session began
  files,            \* the html and summary folders, and the exported table
  fetch,            \* the last run of download_html_only inside a batch
  reader            \* the last load_session of a status reader (UI refresh, --status)

vars == <<current_session, state_file, pc, phase, batch, idx, lastOp, lastArg,
          bkind, bsnap, bcount, lastres, ran, files, fetch, reader>>

\* the artifact folders, the record of the last fetch, and the status reader
disk == <<files, fetch, reader>>

hist == <<bkind, bsnap, bcount, lastres, ran>>

NoArg == [kind |-> "None"]

\* empty html and summary folders, no exported table
\* no status reader has loaded the session yet
NoReader == [result |-> "none", seen |-> NoDoc, session |-> NoSession]

NoFiles == [html |-> <<>>, summary |-> <<>>, out |-> <<>>]

NoFetch == [brand |-> "", page |-> [kind |-> "none", sizes |-> <<0, 0>>], waits |-> <<>>,
            result |-> "none", cached |-> FALSE, delay |-> 0]

\* statuses a document holds after a batch or a run has saved it
PersistedStatuses == {PENDING, NO_BRAND_FOUND, COLLECTED, ANALYZING, ANALYZED,
                      DOWNLOADED, SUMMARIZED, FAILED}

\* error logs found in documents: empty, or one message appended by the
\* retry-capable executor _execute_step
SeedErrors == {<<>>, <<"collect attempt 1 failed">>}

\* a brand entry of a document left by an earlier process
SeedBrand(n, st, er) ==
  [name |-> n, status |-> st,
   attempts |-> [s \in Steps |->
                   CASE s = "collect" -> IF st = PENDING /\ er = <<>> THEN 0 ELSE 1
                     [] s = "download" -> IF st \in {DOWNLOADED, SUMMARIZED} THEN 1 ELSE 0
                     [] OTHER -> IF st = SUMMARIZED THEN 1 ELSE 0],
   last_attempt |-> IF st = PENDING /\ er = <<>> THEN {} ELSE {"collect"},
   errors |-> er]

\* documents left on disk by earlier processes, over the given key lists
SeedDocs(keyseqs, sts) ==
  {[config |-> SessionConfig([kind |-> "inline", cells |-> keys, ok |-> TRUE], keys,
                             [headless |-> TRUE, force_regenerate |-> FALSE]),
    keys |-> keys,
    brands |-> [n \in Range(keys) |-> SeedBrand(n, st[n], er[n])],
    completed_at |-> "null",
    total_brands |-> Len(keys),
    completed_brands |-> Cardinality({n \in Range(keys) : st[n] = SUMMARIZED}),
    failed_brands |-> 0] :
     keys \in keyseqs, st \in [Names -> sts], er \in [Names -> SeedErrors]}

Zero(s) == [n \in DOMAIN s.brands |-> 0]
NoRes(s) == [n \in DOMAIN s.brands |-> "none"]
NoCalls(s) == [n \in DOMAIN s.brands |-> [collect |-> 0, download |-> 0, summarize |-> 0]]

\* the state of a process that has just constructed its SessionManager, with
\* d on disk
InitWith(d) ==
  /\ current_session = NoSession
  /\ state_file = d
  /\ pc = "idle"
  /\ phase = 1
  /\ batch = <<>>
  /\ idx = 0
  /\ lastOp = "init"
  /\ lastArg = NoArg
  /\ bkind = "none"
  /\ bsnap = <<>>
  /\ bcount = <<>>
  /\ lastres = <<>>
  /\ ran = <<>>
  /\ files = NoFiles
  /\ fetch = NoFetch
  /\ reader = NoReader

Init == \E d \in {NoDoc} \cup SeedDocs({<<"Acme">>}, PersistedStatuses) : InitWith(d)

InitStore ==
  \E d \in {NoDoc} \cup SeedDocs({<<"Acme">>, <<"Beta", "acme">>},
                                {SUMMARIZED, FAILED}) :
     InitWith(d)

----------------------------------------------------------------------------
(* create_session, load_session, _save_session_state *)

\* outside run_session nothing is left of its locals, and the record of the
\* last batch is dropped with them
NoRun ==
  /\ phase' = 1
  /\ batch' = <<>>
  /\ idx' = 0
  /\ bkind' = "none"
  /\ bsnap' = <<>>
  /\ bcount' = <<>>
  /\ lastres' = <<>>
  /\ ran' = <<>>

\* create_session(session_name, brands_source, **kwargs)
create_session(src, kw) ==
  /\ pc = "idle"
  /\ IF Loadable(state_file)
     THEN \* existing session: load it, add the brands it does not hold yet
          LET loaded == SessionOf(state_file)
              new == _parse_brands_source(src)
              merged == MergeBrands(loaded, new)
              added_count == Len(merged.keys) - Len(loaded.keys)
          IN IF added_count > 0
             THEN LET s == [merged EXCEPT !.total_brands = Len(merged.keys)]
                  IN /\ current_session' = s
                     /\ state_file' = DocOf(s)
             ELSE /\ current_session' = loaded
                  /\ UNCHANGED state_file
     ELSE /\ current_session' = NewSession(src, kw)
          /\ state_file' = DocOf(NewSession(src, kw))
  /\ lastOp' = IF Loadable(state_file) THEN "merge" ELSE "create"
  /\ lastArg' = src
  /\ NoRun
  /\ UNCHANGED pc
  /\ UNCHANGED disk

\* a load that drops the current session when it fails
load_session_resets ==
  /\ pc = "idle"
  /\ IF Loadable(state_file)
     THEN current_session' = SessionOf(state_file)
     ELSE current_session' = NoSession
  /\ lastOp' = IF Loadable(state_file) THEN "load" ELSE "load_failed"
  /\ lastArg' = NoArg
  /\ NoRun
  /\ UNCHANGED <<state_file, pc>>
  /\ UNCHANGED disk

\* load_session(session_name)
load_session ==
  /\ pc = "idle"
  /\ IF Loadable(state_file)
     THEN current_session' = SessionOf(state_file)
     ELSE UNCHANGED current_session
  /\ lastOp' = IF Loadable(state_file) THEN "load" ELSE "load_failed"
  /\ lastArg' = NoArg
  /\ NoRun
  /\ UNCHANGED <<state_file, pc>>
  /\ UNCHANGED disk

\* _save_session_state() called on its own (it is also the last step of the
\* other operations)
_save_session_state ==
  /\ pc = "idle"
  /\ current_session # NoSession
  /\ state_file' = DocOf(current_session)
  /\ lastOp' = "save"
  /\ lastArg' = NoArg
  /\ UNCHANGED <<current_session, pc, phase, batch, idx, hist>>
  /\ UNCHANGED disk

\* _save_session_state() whose write raises an I/O error: open() fails and
\* the file is as it was, or json.dump fails after open() has emptied it; the
\* "except Exception" prints the error and the call returns
_save_session_state_fails(partial) ==
  /\ pc = "idle"
  /\ current_session # NoSession
  /\ state_file' = IF partial THEN Truncated ELSE state_file
  /\ lastOp' = "save_failed"
  /\ lastArg' = NoArg
  /\ UNCHANGED <<current_session, pc, phase, batch, idx, hist>>
  /\ UNCHANGED disk

\* the process is killed between open(state_file, 'w') and the end of
\* json.dump; the next process starts with a new SessionManager
_save_session_state_killed ==
  /\ pc = "idle"
  /\ current_session # NoSession
  /\ state_file' = Truncated
  /\ current_session' = NoSession
  /\ lastOp' = "killed"
  /\ lastArg' = NoArg
  /\ UNCHANGED <<pc, phase, batch, idx, hist>>
  /\ UNCHANGED disk

----------------------------------------------------------------------------
(* run_session: entry and _handle_resume_brands *)

\* names of s, in dict order, whose status value is in vs
\* (status_value in [...], enum or string alike)
KeysByValue(s, vs) ==
  FilterSeq(s.keys, {n \in DOMAIN s.brands : StatusValue(s.brands[n].status) \in vs})

\* a selection that also takes the failed brands
KeysByStatusOrFailed(s, vs) ==
  FilterSeq(s.keys, {n \in DOMAIN s.brands : StatusIn(s.brands[n].status, vs \cup {FAILED})})

\* names of s, in dict order, whose status is one of the enum members vs
\* (state.status == BrandStatus.X / state.status in [...])
KeysByStatus(s, vs) ==
  FilterSeq(s.keys, {n \in DOMAIN s.brands : StatusIn(s.brands[n].status, vs)})

\* a reset that forgets to clear the error log
ResetFailedKeepErrors(s) ==
  [s EXCEPT !.brands =
     [n \in DOMAIN s.brands |->
        IF StatusValue(s.brands[n].status) \in {FAILED, NO_BRAND_FOUND}
        THEN [s.brands[n] EXCEPT !.status = Enum(PENDING)]
        ELSE s.brands[n]]]

\* _handle_resume_brands, lines 647-654: failed and not-found brands go back
\* to pending with their errors cleared
ResetFailed(s) ==
  [s EXCEPT !.brands =
     [n \in DOMAIN s.brands |->
        IF StatusValue(s.brands[n].status) \in {FAILED, NO_BRAND_FOUND}
        THEN [s.brands[n] EXCEPT !.status = Enum(PENDING), !.errors = <<>>]
        ELSE s.brands[n]]]

\* a re-query that also takes over a not-found result
ResumeStatusAny(st, out) ==
  IF out \in {ANALYZED, ANALYZING, COLLECTED, NO_BRAND_FOUND} THEN Enum(out) ELSE st

\* status after a re-query in _handle_resume_brands, lines 662-676
ResumeStatus(st, out) ==
  IF out \in {ANALYZED, ANALYZING, COLLECTED} THEN Enum(out) ELSE st

\* run_session, called as main() does right after create_session or a
\* successful load_session, up to the first executor call: the resume lists are built, the
\* failed brands reset, and, when nothing has to be re-queried, the state is
\* saved (only if there was something to resume) and Phase 1 begins
RunBegin ==
  /\ pc = "idle"
  /\ lastOp \in {"create", "merge", "load"}
  /\ current_session # NoSession
  /\ LET s == current_session
         failed_brands == KeysByValue(s, {FAILED, NO_BRAND_FOUND})
         recheck_brands == KeysByValue(s, {ANALYZING, COLLECTED})
         r == ResetFailed(s)
     IN /\ current_session' = r
        /\ IF recheck_brands # <<>>
           THEN /\ pc' = "resume"
                /\ batch' = recheck_brands
                /\ idx' = 1
                /\ UNCHANGED state_file
           ELSE /\ pc' = "collect1"
                /\ batch' = <<>>
                /\ idx' = 0
                /\ IF failed_brands # <<>>
                   THEN state_file' = DocOf(r)
                   ELSE UNCHANGED state_file
        /\ bkind' = "resume"
        /\ bsnap' = s.brands
        /\ bcount' = Zero(s)
        /\ lastres' = NoRes(s)
        /\ ran' = NoCalls(s)
  /\ phase' = 1
  /\ lastOp' = "run"
  /\ lastArg' = NoArg
  /\ UNCHANGED disk

\* run_session on a session in which fewer than MaxFailed summaries have failed
RunStart ==
  /\ current_session # NoSession
  /\ current_session.failed_brands < MaxFailed
  /\ RunBegin

\* one iteration of the re-check loop of _handle_resume_brands; after the
\* last one the state is saved
ResumeRecheck(out) ==
  /\ pc = "resume"
  /\ LET n == batch[idx]
         s == current_session
     IN /\ bcount' = [bcount EXCEPT ![n] = @ + 1]
        /\ lastres' = [lastres EXCEPT ![n] = out]
        /\ UNCHANGED ran
        /\ IF out = "interrupt"
           THEN \* KeyboardInterrupt reaches run_session's handler: no save
                /\ pc' = "idle"
                /\ idx' = 0
                /\ lastOp' = "interrupted"
                /\ UNCHANGED <<current_session, state_file, batch>>
           ELSE LET t == [s EXCEPT !.brands[n].status =
                                     IF out = "raise" THEN @ ELSE ResumeStatus(@, out)]
                IN /\ current_session' = t
                   /\ IF idx = Len(batch)
                      THEN /\ state_file' = DocOf(t)
                           /\ pc' = "collect1"
                           /\ idx' = 0
                      ELSE /\ idx' = idx + 1
                           /\ UNCHANGED <<state_file, pc>>
                   /\ UNCHANGED <<batch, lastOp>>
  /\ UNCHANGED <<phase, lastArg, bkind, bsnap>>
  /\ UNCHANGED disk

----------------------------------------------------------------------------
(* The batches *)

BatchPcs == {"collect1", "download1", "summarize1",
             "recheck", "downloadB", "summarizeC",
             "collectD", "downloadE", "summarizeF"}

\* which batch function runs at a position of run_session
Kind(p) ==
  CASE p \in {"collect1", "collectD"} -> "collect"
    [] p \in {"download1", "downloadB", "downloadE"} -> "download"
    [] p \in {"summarize1", "summarizeC", "summarizeF"} -> "summarize"
    [] OTHER -> "recheck"

\* number of retry phases and the phase that also retries collection
NumPhases == 4

\* a scheduler whose every retry phase also runs the steps of the final one
NextPcAlwaysCollect(p, ph) ==
  CASE p = "collect1" -> "download1"
    [] p = "download1" -> "summarize1"
    [] p = "summarize1" -> "phase_check"
    [] p = "recheck" -> "downloadB"
    [] p = "downloadB" -> "summarizeC"
    [] p = "summarizeC" -> "collectD"
    [] p = "collectD" -> "downloadE"
    [] p = "downloadE" -> "summarizeF"
    [] OTHER -> IF ph = NumPhases THEN "finish" ELSE "phase_check"

\* the statement of run_session that follows the batch at position p
NextPc(p, ph) ==
  CASE p = "collect1" -> "download1"
    [] p = "download1" -> "summarize1"
    [] p = "summarize1" -> "phase_check"
    [] p = "recheck" -> "downloadB"
    [] p = "downloadB" -> "summarizeC"
    [] p = "summarizeC" -> IF ph = NumPhases THEN "collectD" ELSE "phase_check"
    [] p = "collectD" -> "downloadE"
    [] p = "downloadE" -> "summarizeF"
    [] OTHER -> "finish"

NextPhase(p, ph) == IF p = "summarizeC" /\ ph < NumPhases THEN ph + 1 ELSE ph

\* a download batch that also takes brands whose report is not ready yet
EligibleLoose(kind) ==
  CASE kind = "collect" -> {PENDING}
    [] kind = "download" -> {ANALYZED, ANALYZING, COLLECTED}
    [] kind = "summarize" -> {DOWNLOADED}
    [] OTHER -> {ANALYZING, COLLECTED}

\* the status test of each batch's list comprehension
Eligible(kind) ==
  CASE kind = "collect" -> {PENDING}
    [] kind = "download" -> {ANALYZED}
    [] kind = "summarize" -> {DOWNLOADED}
    [] OTHER -> {ANALYZING, COLLECTED}

\* a trigger batch that also takes the brands that have failed
SelectBatchRetryFailed(s, kind) ==
  KeysByStatus(s, IF kind = "collect" THEN {PENDING, FAILED} ELSE Eligible(kind))

\* the list comprehension at the top of a batch function
SelectBatch(s, kind) == KeysByStatus(s, Eligible(kind))

\* progress is saved every SaveEvery items
SaveEvery == 5

\* top of a batch function: build the list; an empty list returns at once,
\* without saving
BatchSelect ==
  /\ pc \in BatchPcs
  /\ idx = 0
  /\ LET list == SelectBatch(current_session, Kind(pc))
     IN IF list = <<>>
        THEN /\ pc' = NextPc(pc, phase)
             /\ phase' = NextPhase(pc, phase)
             /\ batch' = <<>>
             /\ UNCHANGED idx
        ELSE /\ batch' = list
             /\ idx' = 1
             /\ UNCHANGED <<pc, phase>>
  /\ bkind' = Kind(pc)
  /\ bsnap' = current_session.brands
  /\ bcount' = Zero(current_session)
  /\ lastres' = NoRes(current_session)
  /\ UNCHANGED <<current_session, state_file, lastOp, lastArg, ran>>
  /\ UNCHANGED disk

\* a loop that saves only after its last item
IterationDoneFinalOnly(t) ==
  /\ current_session' = t
  /\ IF idx = Len(batch)
     THEN /\ state_file' = DocOf(t)
          /\ pc' = NextPc(pc, phase)
          /\ phase' = NextPhase(pc, phase)
          /\ idx' = 0
     ELSE /\ idx' = idx + 1
          /\ UNCHANGED <<state_file, pc, phase>>
  /\ UNCHANGED <<batch, lastOp, lastArg>>

\* end of one loop iteration that left the session as t: periodic save, and
\* after the last item the final save and the return to run_session
IterationDone(t) ==
  /\ current_session' = t
  /\ IF idx = Len(batch)
     THEN /\ state_file' = DocOf(t)
          /\ pc' = NextPc(pc, phase)
          /\ phase' = NextPhase(pc, phase)
          /\ idx' = 0
     ELSE /\ state_file' = IF idx % SaveEvery = 0 THEN DocOf(t) ELSE state_file
          /\ idx' = idx + 1
          /\ UNCHANGED <<pc, phase>>
  /\ UNCHANGED <<batch, lastOp, lastArg>>

\* an interrupt handler that saves the state it reports as saved
InterruptedSaved(t) ==
  /\ current_session' = t
  /\ state_file' = DocOf(t)
  /\ pc' = "idle"
  /\ idx' = 0
  /\ lastOp' = "interrupted"
  /\ UNCHANGED <<phase, batch, lastArg>>

\* a KeyboardInterrupt during the executor call leaves the session as t and
\* ends run_session in its "except KeyboardInterrupt" handler, which prints
\* and does not save
Interrupted(t) ==
  /\ current_session' = t
  /\ pc' = "idle"
  /\ idx' = 0
  /\ lastOp' = "interrupted"
  /\ UNCHANGED <<state_file, phase, batch, lastArg>>

\* a trigger batch that treats a brand that was not found as a failure
CollectStatusNotFoundFails(out) ==
  IF out \in {COLLECTED, ANALYZING, ANALYZED} THEN out ELSE FAILED

\* status chosen by _batch_collect_all for an executor outcome
CollectStatus(out) ==
  IF out \in {NO_BRAND_FOUND, COLLECTED, ANALYZING, ANALYZED} THEN out ELSE FAILED

\* a download batch that accepts an incomplete file
DownloadStatusLoose(out) ==
  IF out # "raise" /\ _download_step_simple(out) \in {"downloaded", "incomplete"}
  THEN DOWNLOADED ELSE FAILED

\* status chosen by _batch_download_all for an executor outcome
DownloadStatus(out) ==
  IF out # "raise" /\ _download_step_simple(out) = "downloaded" THEN DOWNLOADED ELSE FAILED

\* a re-check that also takes over a not-found result
RecheckStatusAny(st, out) ==
  IF out \in {ANALYZED, ANALYZING, NO_BRAND_FOUND} THEN Enum(out) ELSE st

\* status chosen by _batch_recheck_all for an executor outcome
RecheckStatus(st, out) ==
  IF out \in {ANALYZED, ANALYZING} THEN Enum(out) ELSE st

Called(n, out) ==
  /\ bcount' = [bcount EXCEPT ![n] = @ + 1]
  /\ lastres' = [lastres EXCEPT ![n] = out]
  /\ ran' = IF Kind(pc) \in Steps THEN [ran EXCEPT ![n][Kind(pc)] = @ + 1] ELSE ran
  /\ UNCHANGED <<bkind, bsnap>>

\* _batch_collect_all without its per-brand try/except: an executor exception
\* leaves the loop and reaches the "except Exception" handler of run_session,
\* which saves and returns
_batch_collect_all_unguarded(out) ==
  /\ pc \in BatchPcs /\ Kind(pc) = "collect" /\ idx > 0
  /\ LET n == batch[idx]
         inflight == [current_session EXCEPT !.brands[n].status = Enum(COLLECTING)]
     IN /\ Called(n, out)
        /\ IF out = "interrupt"
           THEN Interrupted(inflight)
           ELSE IF out = "raise"
           THEN /\ current_session' = inflight
                /\ state_file' = DocOf(inflight)
                /\ pc' = "idle"
                /\ idx' = 0
                /\ lastOp' = "run_error"
                /\ UNCHANGED <<phase, batch, lastArg>>
           ELSE IterationDone(
                  [inflight EXCEPT !.brands[n].status = Enum(CollectStatus(out)),
                                   !.brands[n].attempts["collect"] = 1,
                                   !.brands[n].last_attempt = @ \cup {"collect"}])
  /\ UNCHANGED disk

\* one loop iteration of _batch_collect_all
_batch_collect_all(out) ==
  /\ pc \in BatchPcs /\ Kind(pc) = "collect" /\ idx > 0
  /\ LET n == batch[idx]
         inflight == [current_session EXCEPT !.brands[n].status = Enum(COLLECTING)]
     IN /\ Called(n, out)
        /\ IF out = "interrupt"
           THEN Interrupted(inflight)
           ELSE IterationDone(
                  [inflight EXCEPT !.brands[n].status = Enum(CollectStatus(out)),
                                   !.brands[n].attempts["collect"] = 1,
                                   !.brands[n].last_attempt = @ \cup {"collect"}])
  /\ UNCHANGED disk

\* a fetch loop that returns to run_session without its final save
DownloadIterationUnsaved(out) ==
  /\ pc \in BatchPcs /\ Kind(pc) = "download" /\ idx > 0
  /\ LET n == batch[idx]
         inflight == [current_session EXCEPT !.brands[n].status = Enum(DOWNLOADING)]
         t == [inflight EXCEPT !.brands[n].status = Enum(DownloadStatus(out)),
                               !.brands[n].attempts["download"] = 1,
                               !.brands[n].last_attempt = @ \cup {"download"}]
     IN /\ Called(n, out)
        /\ IF out = "interrupt"
           THEN Interrupted(inflight)
           ELSE /\ current_session' = t
                /\ IF idx = Len(batch)
                   THEN /\ pc' = NextPc(pc, phase)
                        /\ phase' = NextPhase(pc, phase)
                        /\ idx' = 0
                   ELSE /\ idx' = idx + 1
                        /\ UNCHANGED <<pc, phase>>
                /\ UNCHANGED <<state_file, batch, lastOp, lastArg>>

\* one loop iteration of _batch_download_all whose executor call ended as out
DownloadIteration(out) ==
  /\ pc \in BatchPcs /\ Kind(pc) = "download" /\ idx > 0
  /\ LET n == batch[idx]
         inflight == [current_session EXCEPT !.brands[n].status = Enum(DOWNLOADING)]
     IN /\ Called(n, out)
        /\ IF out = "interrupt"
           THEN Interrupted(inflight)
           ELSE IterationDone(
                  [inflight EXCEPT !.brands[n].status = Enum(DownloadStatus(out)),
                                   !.brands[n].attempts["download"] = 1,
                                   !.brands[n].last_attempt = @ \cup {"download"}])

\* one loop iteration of _batch_download_all, the executor taken as a black
\* box
_batch_download_all(out) ==
  /\ DownloadIteration(out)
  /\ UNCHANGED disk

\* a post-process loop that counts every brand it has handled as completed
SummarizeIterationCountsAll(out) ==
  /\ pc \in BatchPcs /\ Kind(pc) = "summarize" /\ idx > 0
  /\ LET n == batch[idx]
         inflight == [current_session EXCEPT !.brands[n].status = Enum(SUMMARIZING)]
         ok == _summarize_step_simple(out) = "summarized"
     IN /\ Called(n, out)
        /\ IF out = "interrupt"
           THEN Interrupted(inflight)
           ELSE IterationDone(
                  [inflight EXCEPT !.brands[n].status = Enum(IF ok THEN SUMMARIZED ELSE FAILED),
                                   !.completed_brands = @ + 1,
                                   !.brands[n].attempts["summarize"] = 1,
                                   !.brands[n].last_attempt = @ \cup {"summarize"}])

\* one loop iteration of _batch_summarize_all whose executor call ended as out
SummarizeIteration(out) ==
  /\ pc \in BatchPcs /\ Kind(pc) = "summarize" /\ idx > 0
  /\ LET n == batch[idx]
         inflight == [current_session EXCEPT !.brands[n].status = Enum(SUMMARIZING)]
         ok == _summarize_step_simple(out) = "summarized"
     IN /\ Called(n, out)
        /\ IF out = "interrupt"
           THEN Interrupted(inflight)
           ELSE IterationDone(
                  [inflight EXCEPT !.brands[n].status = Enum(IF ok THEN SUMMARIZED ELSE FAILED),
                                   !.completed_brands = IF ok THEN @ + 1 ELSE @,
                                   !.failed_brands = IF ok THEN @ ELSE @ + 1,
                                   !.brands[n].attempts["summarize"] = 1,
                                   !.brands[n].last_attempt = @ \cup {"summarize"}])

\* one loop iteration of _batch_summarize_all, the executor taken as a black
\* box
_batch_summarize_all(out) ==
  /\ SummarizeIteration(out)
  /\ UNCHANGED disk

\* one loop iteration of _batch_recheck_all
_batch_recheck_all(out) ==
  /\ pc = "recheck" /\ idx > 0
  /\ LET n == batch[idx]
     IN /\ Called(n, out)
        /\ IF out = "interrupt"
           THEN Interrupted(current_session)
           ELSE IterationDone(
                  [current_session EXCEPT !.brands[n].status =
                     IF out = "raise" THEN @ ELSE RecheckStatus(@, out)])
  /\ UNCHANGED disk

----------------------------------------------------------------------------
(* The phase scheduler *)

\* top of the "for phase in retry_phases" loop: the incomplete list decides
\* whether the phase runs (interim export, then the wait) or is skipped
PhaseCheck ==
  /\ pc = "phase_check"
  /\ LET incomplete_brands ==
           KeysByStatus(current_session, {PENDING, COLLECTING, ANALYZING, COLLECTED, FAILED})
     IN IF incomplete_brands # <<>>
        THEN pc' = "export" /\ UNCHANGED phase
        ELSE IF phase = NumPhases
             THEN pc' = "finish" /\ UNCHANGED phase
             ELSE phase' = phase + 1 /\ UNCHANGED pc
  /\ UNCHANGED <<current_session, state_file, batch, idx, lastOp, lastArg, hist>>
  /\ UNCHANGED disk

\* _export_csv_results() before the wait of a phase, for a session whose
\* brands came from an inline list: brands_file is None and the function
\* returns at once
_export_csv_results ==
  /\ pc = "export"
  /\ pc' = "wait"
  /\ UNCHANGED <<current_session, state_file, phase, batch, idx, lastOp, lastArg, hist>>
  /\ UNCHANGED disk

\* the retry phases of run_session
retry_phases ==
  <<[wait_minutes |-> 5, wait_seconds |-> 300],
    [wait_minutes |-> 10, wait_seconds |-> 600],
    [wait_minutes |-> 30, wait_seconds |-> 1800],
    [wait_minutes |-> 60, wait_seconds |-> 3600]>>

\* seconds slept by the loop of _wait_with_progress from `remaining` on:
\* for remaining in range(seconds, 0, -30): sleep(30 if remaining >= 30 else remaining)
RECURSIVE SleepFrom(_)
SleepFrom(remaining) ==
  IF remaining <= 0 THEN 0
  ELSE (IF remaining >= 30 THEN 30 ELSE remaining) + SleepFrom(remaining - 30)

\* _wait_with_progress: the sleep ends, or a KeyboardInterrupt ends the run
_wait_with_progress(out) ==
  /\ pc = "wait"
  /\ IF out = "interrupt"
     THEN Interrupted(current_session) /\ UNCHANGED hist
     ELSE /\ pc' = "recheck"
          /\ UNCHANGED <<current_session, state_file, phase, batch, idx, lastOp, lastArg, hist>>
  /\ UNCHANGED disk

\* an end of run_session that stamps completed_at in memory only
FinishNotPersisted ==
  /\ pc = "finish"
  /\ LET t == [current_session EXCEPT !.completed_at = "stamped"]
     IN /\ current_session' = t
        /\ lastOp' = IF t.total_brands = 0 THEN "run_error" ELSE "run_done"
  /\ pc' = "idle"
  /\ UNCHANGED <<state_file, phase, batch, idx, lastArg, hist>>
  /\ UNCHANGED disk

\* end of run_session: completed_at is stamped and saved, the final summary
\* is printed and the results exported. With no brands the success rate
\* divides by zero; the "except Exception" handler then saves once more and
\* the export is not reached.
FinishSteps ==
  /\ pc = "finish"
  /\ LET t == [current_session EXCEPT !.completed_at = "stamped"]
     IN /\ current_session' = t
        /\ state_file' = DocOf(t)
        /\ lastOp' = IF t.total_brands = 0 THEN "run_error" ELSE "run_done"
  /\ pc' = "idle"
  /\ UNCHANGED <<phase, batch, idx, lastArg, hist>>

\* the end of run_session for a session whose brands came from an inline
\* list: the export returns at once
Finish ==
  /\ FinishSteps
  /\ UNCHANGED disk

\* a top-level handler that only reports the error
run_session_error_unsaved ==
  /\ pc # "idle" /\ (idx > 1 \/ pc = "phase_check")
  /\ pc' = "idle"
  /\ idx' = 0
  /\ lastOp' = "run_error"
  /\ UNCHANGED <<current_session, state_file, phase, batch, lastArg, hist>>
  /\ UNCHANGED disk

\* an exception raised in run_session outside the per-brand try blocks, in
\* print_session_table after the initial pipeline or after a phase, or in the
\* statements of a batch loop that precede the try of its second or a later
\* brand: "except Exception" prints it, saves the session and run_session
\* returns
run_session_error ==
  /\ pc # "idle" /\ (idx > 1 \/ pc = "phase_check")
  /\ state_file' = DocOf(current_session)
  /\ pc' = "idle"
  /\ idx' = 0
  /\ lastOp' = "run_error"
  /\ UNCHANGED <<current_session, phase, batch, lastArg, hist>>
  /\ UNCHANGED disk

----------------------------------------------------------------------------
(* The artifact folders: the fetch and post-process executors, the export *)

\* f"{brand_name.replace(' ', '_').lower()}_report.html" in the html folder
HtmlFile(n) == Lower(Underscore(n)) \o "_report.html"

\* f"{brand_name.replace(' ', '_').lower()}_analysis.txt" in the summary folder
SummaryFile(n) == Lower(Underscore(n)) \o "_analysis.txt"

\* a folder with the file p written (created or replaced)
Put(folder, p, v) == [q \in DOMAIN folder \cup {p} |-> IF q = p THEN v ELSE folder[q]]

\* size from which a report file counts as complete
MinHtmlSize == 300000

\* what the browser delivers to one run of download_html_only: the report
\* page, whose saved content has sizes[1] bytes at the first save and
\* sizes[2] at the second; no report of that name in the list; an exception
\* inside the try block; an exception while launching the browser
Pages ==
       {[kind |-> "ok", sizes |-> s] :
           s \in {<<MinHtmlSize, MinHtmlSize>>, <<MinHtmlSize - 1, MinHtmlSize>>,
                  <<MinHtmlSize - 1, MinHtmlSize - 1>>}}
  \cup {[kind |-> k, sizes |-> <<0, 0>>] : k \in {"not_found", "error", "raise"}}

\* _download_and_validate: the page content is written over the brand's
\* report file, which makes an existing summary of that name older than the
\* report, and the file size decides the result
_download_and_validate(fs, n, size, extended_wait) ==
  [wait_time |-> IF extended_wait THEN 15 ELSE 10,
   fs |-> [fs EXCEPT
             !.html = Put(@, HtmlFile(n), [size |-> size, by |-> n]),
             !.summary = IF SummaryFile(n) \in DOMAIN @
                         THEN [@ EXCEPT ![SummaryFile(n)].stale = TRUE]
                         ELSE @],
   result |-> IF size < MinHtmlSize THEN "incomplete" ELSE "downloaded"]

\* the outcome of a run of download_html_only that saved nothing
NothingSaved(fs, result, cached) ==
  [fs |-> fs, result |-> result, waits |-> <<>>, cached |-> cached]

\* a fetch that gives up after the first undersized file
download_html_only_once(fs, n, force, page) ==
  LET p == HtmlFile(n)
  IN IF ~force /\ p \in DOMAIN fs.html /\ fs.html[p].size >= MinHtmlSize
     THEN NothingSaved(fs, "downloaded", TRUE)
     ELSE CASE page.kind = "not_found" -> NothingSaved(fs, "not_found_in_search", FALSE)
            [] page.kind = "error" -> NothingSaved(fs, "error", FALSE)
            [] page.kind = "raise" -> NothingSaved(fs, "raise", FALSE)
            [] OTHER ->
                 LET first == _download_and_validate(fs, n, page.sizes[1], FALSE)
                 IN [fs |-> first.fs, result |-> first.result,
                     waits |-> <<first.wait_time>>, cached |-> FALSE]

\* download_html_only(brand_name, return_result=True, force_regenerate=force):
\* a complete report already in the folder is served; otherwise the report
\* is saved, and saved once more after a longer wait if the first file is
\* undersized; waits lists the wait of every save
download_html_only(fs, n, force, page) ==
  LET p == HtmlFile(n)
  IN IF ~force /\ p \in DOMAIN fs.html /\ fs.html[p].size >= MinHtmlSize
     THEN NothingSaved(fs, "downloaded", TRUE)
     ELSE CASE page.kind = "not_found" -> NothingSaved(fs, "not_found_in_search", FALSE)
            [] page.kind = "error" -> NothingSaved(fs, "error", FALSE)
            [] page.kind = "raise" -> NothingSaved(fs, "raise", FALSE)
            [] OTHER ->
                 LET first == _download_and_validate(fs, n, page.sizes[1], FALSE)
                     second == _download_and_validate(first.fs, n, page.sizes[2], TRUE)
                 IN IF first.result = "incomplete"
                    THEN [fs |-> second.fs, result |-> second.result,
                          waits |-> <<first.wait_time, second.wait_time>>,
                          cached |-> FALSE]
                    ELSE [fs |-> first.fs, result |-> first.result,
                          waits |-> <<first.wait_time>>, cached |-> FALSE]

\* what summarize_with_llm does in one run of summarize_html: returns a
\* text, or raises, with a message that makes the returned error string
\* longer than the minimum length ("raise") or not ("raise_brief")
LlmOutcomes == {"Summary one", "Summary two", "brief", "raise", "raise_brief"}

\* summarize_html(brand_name, force_regenerate=force): an existing summary
\* that is not older than the report is returned as it is; otherwise the
\* report is read, summarized and the summary file written; a missing report
\* and an exception are returned as messages
summarize_html(fs, n, force, llm) ==
  LET p == SummaryFile(n)
  IN IF p \in DOMAIN fs.summary /\ ~force
        /\ HtmlFile(n) \in DOMAIN fs.html /\ ~fs.summary[p].stale
     THEN [fs |-> fs, text |-> fs.summary[p].text]
     ELSE IF HtmlFile(n) \notin DOMAIN fs.html
     THEN [fs |-> fs, text |-> "HTML file not found"]
     ELSE IF llm = "raise"
     THEN [fs |-> fs, text |-> "Error generating summary: long message"]
     ELSE IF llm = "raise_brief"
     THEN [fs |-> fs, text |-> "Error generating summary: brief"]
     ELSE [fs |-> [fs EXCEPT !.summary = Put(@, p, [text |-> llm, by |-> n, stale |-> FALSE])],
           text |-> llm]

\* a fetch step that always asks for a fresh download
_batch_download_all_on_disk_forced(page) ==
  /\ pc \in BatchPcs /\ Kind(pc) = "download" /\ idx > 0
  /\ LET n == batch[idx]
         r == download_html_only(files, n, TRUE, page)
     IN /\ files' = r.fs
        /\ fetch' = [brand |-> n, page |-> page, waits |-> r.waits, result |-> r.result,
                     cached |-> r.cached, delay |-> 0]
        /\ DownloadIteration(r.result)
  /\ UNCHANGED reader

\* one loop iteration of _batch_download_all with download_html_only run on
\* the html folder; the loop goes on to the next brand without sleeping
_batch_download_all_on_disk(page) ==
  /\ pc \in BatchPcs /\ Kind(pc) = "download" /\ idx > 0
  /\ LET n == batch[idx]
         r == download_html_only(files, n, current_session.config.force_regenerate, page)
     IN /\ files' = r.fs
        /\ fetch' = [brand |-> n, page |-> page, waits |-> r.waits, result |-> r.result,
                     cached |-> r.cached, delay |-> 0]
        /\ DownloadIteration(r.result)
  /\ UNCHANGED reader

\* one loop iteration of _batch_summarize_all with summarize_html run on the
\* two folders
_batch_summarize_all_on_disk(llm) ==
  /\ pc \in BatchPcs /\ Kind(pc) = "summarize" /\ idx > 0
  /\ LET n == batch[idx]
         r == summarize_html(files, n, current_session.config.force_regenerate, llm)
     IN /\ files' = r.fs
        /\ SummarizeIteration(r.text)
  /\ UNCHANGED <<fetch, reader>>

\* str(row[brand_column]) of a cell of the brand column; "NaN": a missing cell
CellText(c) == IF c = "NaN" THEN "nan" ELSE c

\* first session key equal to brand_name without regard to case, <<>> if none
RECURSIVE MatchingBrand(_, _)
MatchingBrand(keys, brand_name) ==
  IF keys = <<>> THEN <<>>
  ELSE IF Lower(Head(keys)) = Lower(brand_name) THEN <<Head(keys)>>
       ELSE MatchingBrand(Tail(keys), brand_name)

\* the "Brand Data" cell that _export_csv_results writes for one row
BrandData(s, fs, cell) ==
  LET brand_name == Strip(CellText(cell))
      matching_brand == MatchingBrand(s.keys, brand_name)
  IN IF brand_name = "" \/ Lower(brand_name) = "nan" THEN ""
     ELSE IF matching_brand = <<>> THEN "Brand not processed in this session"
     ELSE LET m == matching_brand[1]
          IN IF SummaryFile(m) \in DOMAIN fs.summary
             THEN Strip(fs.summary[SummaryFile(m)].text)
             ELSE "Summary Status: " \o StatusValue(s.brands[m].status)

\* the table written by _export_csv_results when the original file holds
\* `rows` in its brand column; nothing is written unless brands_file is a
\* readable .csv
ExportTable(s, fs, rows) ==
  IF s.config.brands_file.kind = "csv" /\ s.config.brands_file.ok
  THEN [i \in 1..Len(rows) |-> [brand |-> rows[i], data |-> BrandData(s, fs, rows[i])]]
  ELSE fs.out

\* the original table as _export_csv_results finds it: as it was when the
\* session was created, or edited since
TablesNow(s) == {s.config.brands_file.cells, <<"a b", "Acme">>}

\* _export_csv_results() before the wait of a phase, for a session created
\* from a table
_export_csv_results_on_disk(rows) ==
  /\ pc = "export"
  /\ pc' = "wait"
  /\ files' = [files EXCEPT !.out = ExportTable(current_session, files, rows)]
  /\ UNCHANGED <<current_session, state_file, phase, batch, idx, lastOp, lastArg, hist, fetch, reader>>

\* the end of run_session for a session created from a table: the export
\* is reached unless the summary has divided by zero
FinishOnDisk(rows) ==
  /\ FinishSteps
  /\ files' = IF current_session.total_brands = 0 THEN files
              ELSE [files EXCEPT !.out = ExportTable(current_session, files, rows)]
  /\ UNCHANGED <<fetch, reader>>

\* brand columns of the tables from which the sessions below are created
FileSources ==
  {[kind |-> "csv", cells |-> c, ok |-> TRUE] :
     c \in {<<"A b", "a_b">>, <<" Acme", "NaN">>, <<"Beta", "A b">>}}

\* the html folder as an earlier run of the session left it
FoldersLeft ==
  {NoFiles} \cup
  {[NoFiles EXCEPT !.html = Put(<<>>, HtmlFile("Beta"), [size |-> sz, by |-> "Beta"])] :
     sz \in {MinHtmlSize - 1, MinHtmlSize}}

\* create_session(table) followed by run_session up to the first batch
InitFiles ==
  \E src \in FileSources, kw \in Kwargs, fs \in FoldersLeft :
     LET s == NewSession(src, kw)
     IN /\ current_session = s
        /\ state_file = DocOf(s)
        /\ pc = "collect1"
        /\ phase = 1
        /\ batch = <<>>
        /\ idx = 0
        /\ lastOp = "run"
        /\ lastArg = src
        /\ bkind = "resume"
        /\ bsnap = s.brands
        /\ bcount = Zero(s)
        /\ lastres = NoRes(s)
        /\ ran = NoCalls(s)
        /\ files = fs
        /\ fetch = NoFetch
        /\ reader = NoReader

\* the initial pipeline, the first phase check and the exports of a session
\* created from a table, with the executors working on the folders
NextFiles ==
  \/ BatchSelect
  \/ \E out \in {"analyzed", "no_brand_found"} : _batch_collect_all(out)
  \/ \E page \in Pages : _batch_download_all_on_disk(page)
  \/ \E llm \in LlmOutcomes : _batch_summarize_all_on_disk(llm)
  \/ PhaseCheck
  \/ \E rows \in TablesNow(current_session) : _export_csv_results_on_disk(rows)
  \/ \E rows \in TablesNow(current_session) : FinishOnDisk(rows)

SpecFiles == InitFiles /\ [][NextFiles]_vars

----------------------------------------------------------------------------

Next ==
  \/ \E src \in RunSources : create_session(src, [headless |-> TRUE, force_regenerate |-> FALSE])
  \/ load_session
  \/ RunStart
  \/ \E out \in TriggerOutcomes : ResumeRecheck(out)
  \/ BatchSelect
  \/ \E out \in TriggerOutcomes : _batch_collect_all(out)
  \/ \E out \in FetchOutcomes : _batch_download_all(out)
  \/ \E out \in PostOutcomes : _batch_summarize_all(out)
  \/ \E out \in TriggerOutcomes : _batch_recheck_all(out)
  \/ PhaseCheck
  \/ _export_csv_results
  \/ \E out \in {"done", "interrupt"} : _wait_with_progress(out)
  \/ Finish
  \/ run_session_error

Spec == Init /\ [][Next]_vars

\* the steps of run_session when every executor call and every wait returns
\* (with a result or an exception) and nothing outside the per-brand try
\* blocks raises
RunStep ==
  \/ \E out \in TriggerOutcomes \ {"interrupt"} : ResumeRecheck(out)
  \/ BatchSelect
  \/ \E out \in TriggerOutcomes \ {"interrupt"} : _batch_collect_all(out)
  \/ \E out \in FetchOutcomes \ {"interrupt"} : _batch_download_all(out)
  \/ \E out \in PostOutcomes \ {"interrupt"} : _batch_summarize_all(out)
  \/ \E out \in TriggerOutcomes \ {"interrupt"} : _batch_recheck_all(out)
  \/ PhaseCheck
  \/ _export_csv_results
  \/ _wait_with_progress("done")
  \/ Finish

NextLive ==
  \/ \E src \in RunSources : create_session(src, [headless |-> TRUE, force_regenerate |-> FALSE])
  \/ load_session
  \/ RunStart
  \/ RunStep

\* run_session is one sequential thread: once started, its next statement is
\* executed whenever the call before it has returned
SpecLive == Init /\ [][NextLive]_vars /\ WF_vars(RunStep)

\* create, load and save alone, over every brand source and any document
NextStore ==
  \/ \E src \in Sources, kw \in Kwargs : state_file = NoDoc /\ create_session(src, kw)
  \/ \E src \in Sources : state_file # NoDoc /\ create_session(src, ReuseKwargs)
  \/ load_session
  \/ _save_session_state
  \/ \E partial \in BOOLEAN : _save_session_state_fails(partial)
  \/ _save_session_state_killed

SpecStore == InitStore /\ [][NextStore]_vars

\* a session run again after a run in which summaries failed: run_session
\* on a fresh or reloaded session in which at most MaxFailed summaries have
\* failed so far, every trigger and fetch succeeding and every summary either
\* long enough or empty
RunAgain ==
  /\ current_session # NoSession
  /\ current_session.failed_brands <= MaxFailed
  /\ RunBegin

NextResume ==
  \/ \E src \in RunSources : create_session(src, [headless |-> TRUE, force_regenerate |-> FALSE])
  \/ load_session
  \/ RunAgain
  \/ BatchSelect
  \/ _batch_collect_all("analyzed")
  \/ _batch_download_all("downloaded")
  \/ \E out \in {"empty", "text101"} : _batch_summarize_all(out)
  \/ PhaseCheck
  \/ _export_csv_results
  \/ _wait_with_progress("done")
  \/ Finish

SpecResume == Init /\ [][NextResume]_vars

\* _save_session_state() called outside run_session, up to open(state_file,
\* 'w'): the file is emptied
save_open ==
  /\ pc = "idle"
  /\ current_session # NoSession
  /\ state_file' = Partial(DocOf(current_session), 0)
  /\ pc' = "saving"
  /\ lastOp' = "save_open"
  /\ lastArg' = NoArg
  /\ UNCHANGED <<current_session, phase, batch, idx, hist>>
  /\ UNCHANGED disk

\* json.dump writes the next piece; after the last one the file is closed
\* and _save_session_state returns
save_write ==
  /\ pc = "saving"
  /\ LET k == state_file.partial + 1
     IN IF k = Len(DocParts)
        THEN /\ state_file' = state_file.doc
             /\ pc' = "idle"
             /\ lastOp' = "save"
        ELSE /\ state_file' = Partial(state_file.doc, k)
             /\ UNCHANGED <<pc, lastOp>>
  /\ UNCHANGED <<current_session, phase, batch, idx, lastArg, hist>>
  /\ UNCHANGED disk

\* a status reader that takes whatever pieces of the document it finds:
\* once the brands are there, the missing counters get the defaults of
\* state_data.get
reader_load_session_lenient ==
  /\ reader' =
       IF state_file \in {NoDoc, Truncated} THEN [result |-> "False", seen |-> state_file, session |-> NoSession]
       ELSE IF ~IsPartial(state_file)
            THEN [result |-> "True", seen |-> state_file, session |-> SessionOf(state_file)]
            ELSE IF state_file.partial < 2
                 THEN [result |-> "False", seen |-> state_file, session |-> NoSession]
                 ELSE [result |-> "True", seen |-> state_file,
                       session |-> [SessionOf(state_file.doc) EXCEPT !.completed_brands = 0,
                                                                      !.failed_brands = 0]]
  /\ UNCHANGED <<current_session, state_file, pc, phase, batch, idx, lastOp, lastArg, hist,
                 files, fetch>>

\* the status reader: a new SessionManager whose load_session(session_name)
\* runs while the runner is wherever it is; a missing file and a text that
\* does not parse both give False and leave the reader without a session
reader_load_session ==
  /\ reader' =
       IF state_file = NoDoc THEN [result |-> "False", seen |-> state_file, session |-> NoSession]
       ELSE LET state_data == json_load(state_file)
            IN IF state_data.ok
               THEN [result |-> "True", seen |-> state_file, session |-> SessionOf(state_data.data)]
               ELSE [result |-> "False", seen |-> state_file, session |-> NoSession]
  /\ UNCHANGED <<current_session, state_file, pc, phase, batch, idx, lastOp, lastArg, hist,
                 files, fetch>>

\* a runner whose session is saved again after an interrupted run, and the
\* status reader beside it
NextReader ==
  \/ create_session([kind |-> "inline", cells |-> <<"Acme", " acme">>, ok |-> TRUE],
                    [headless |-> TRUE, force_regenerate |-> FALSE])
  \/ load_session
  \/ RunStart
  \/ BatchSelect
  \/ \E out \in {"analyzed", "interrupt"} : _batch_collect_all(out)
  \/ \E out \in {"downloaded", "interrupt"} : _batch_download_all(out)
  \/ \E out \in {"text101", "interrupt"} : _batch_summarize_all(out)
  \/ PhaseCheck
  \/ Finish
  \/ save_open
  \/ save_write
  \/ reader_load_session

SpecReader == InitWith(NoDoc) /\ [][NextReader]_vars

\* the initial pipeline of one session of BatchLen brands, item by item
BatchNames == [i \in 1..BatchLen |-> "Brand" \o ToString(i)]

BatchSource == [kind |-> "inline", cells |-> BatchNames, ok |-> TRUE]

\* create_session(BatchSource) followed by run_session up to the first batch:
\* nothing to resume, nothing saved since the creation
InitBatch ==
  LET s == NewSession(BatchSource, [headless |-> TRUE, force_regenerate |-> FALSE])
  IN /\ current_session = s
     /\ state_file = DocOf(s)
     /\ pc = "collect1"
     /\ phase = 1
     /\ batch = <<>>
     /\ idx = 0
     /\ lastOp = "run"
     /\ lastArg = NoArg
     /\ bkind = "resume"
     /\ bsnap = s.brands
     /\ bcount = Zero(s)
     /\ lastres = NoRes(s)
     /\ ran = NoCalls(s)
     /\ files = NoFiles
     /\ fetch = NoFetch
     /\ reader = NoReader

NextBatch ==
  \/ pc \in {"collect1", "download1", "summarize1"} /\ BatchSelect
  \/ \E out \in {"analyzed", "raise", "interrupt"} : _batch_collect_all(out)
  \/ \E out \in {"downloaded", "none"} : _batch_download_all(out)
  \/ \E out \in {"text101", "empty"} : _batch_summarize_all(out)

SpecBatch == InitBatch /\ [][NextBatch]_vars

----------------------------------------------------------------------------
(* Properties *)

\* the run has just left a batch (or found its list empty) and was not cut
\* short by a KeyboardInterrupt
BatchOver == idx = 0 /\ bkind # "none" /\ lastOp \in {"run", "run_done", "run_error"}

\* two sessions agree on config, item names and order, and per item on the
\* status value, the attempt counts and the error list
Equivalent(a, b) ==
  /\ a.config = b.config
  /\ a.keys = b.keys
  /\ DOMAIN a.brands = DOMAIN b.brands
  /\ \A n \in DOMAIN a.brands :
       /\ StatusValue(a.brands[n].status) = StatusValue(b.brands[n].status)
       /\ a.brands[n].attempts = b.brands[n].attempts
       /\ a.brands[n].errors = b.brands[n].errors

\* C1: saving any session and loading it back gives an equivalent session
\* (config, names in order, status values, attempts, errors), and saving the
\* loaded session (statuses now plain strings) gives the same document, which
\* loads to the same session; in particular a session just loaded saves to
\* the document it was loaded from.
C1_SaveLoadFixedPoint ==
  current_session # NoSession =>
    LET S == current_session
        D == DocOf(S)
        L == SessionOf(D)
    IN /\ Equivalent(L, S)
       /\ DocOf(L) = D
       /\ SessionOf(DocOf(L)) = L
       /\ lastOp = "load" => DocOf(S) = state_file

\* a session loaded from a document that a run has written, holding a
\* summarized item
C1_Witness ==
  /\ lastOp = "load"
  /\ \E n \in DOMAIN current_session.brands :
       /\ current_session.brands[n].status = Str(SUMMARIZED)
       /\ current_session.brands[n].attempts["collect"] = 1
       /\ current_session.completed_at = "stamped"

\* C2 (as claimed): in the initial pipeline every item whose status is
\* pending when the trigger batch starts gets the trigger executor, every
\* item that is analyzed when the fetch batch starts gets the fetch executor,
\* and every item that is downloaded when the post-process batch starts gets
\* the post-process executor, in loaded sessions as in fresh ones.
C2_InitialPipelineCoversPersisted ==
  /\ (pc = "download1" /\ BatchOver /\ bkind = "collect") =>
       \A n \in DOMAIN bsnap : StatusValue(bsnap[n].status) = PENDING => bcount[n] = 1
  /\ (pc = "summarize1" /\ BatchOver /\ bkind = "download") =>
       \A n \in DOMAIN bsnap : StatusValue(bsnap[n].status) = ANALYZED => bcount[n] = 1
  /\ (pc = "phase_check" /\ phase = 1 /\ BatchOver /\ bkind = "summarize") =>
       \A n \in DOMAIN bsnap : StatusValue(bsnap[n].status) = DOWNLOADED => bcount[n] = 1

\* C3: during resume handling, and until the first batch selects its list,
\* every item that was failed or no_brand_found when run_session was entered
\* is pending with an empty error log and has received no executor call; the
\* reset is in place in every state of the run, so before any executor call.
C3_ResumeResetBeforeAnyStep ==
  (bkind = "resume" /\ lastOp = "run") =>
    \A n \in DOMAIN bsnap :
      StatusValue(bsnap[n].status) \in {FAILED, NO_BRAND_FOUND} =>
        /\ current_session.brands[n].status = Enum(PENDING)
        /\ current_session.brands[n].errors = <<>>
        /\ bcount[n] = 0

\* a resumed run in its resume handling with an item that was failed with a
\* non-empty error log on entry
C3_Witness ==
  /\ bkind = "resume" /\ lastOp = "run"
  /\ \E n \in DOMAIN bsnap :
       /\ bsnap[n].status = Str(FAILED)
       /\ bsnap[n].errors # <<>>
       /\ current_session.brands[n].errors = <<>>

\* C4: when resume handling is over and before the first batch selects, every
\* item that was analyzing or collected on entry has been re-queried exactly
\* once and no other item at all; its status is the result when that is
\* analyzed, analyzing or collected, and otherwise (any other result, or an
\* exception) what it was; no item is re-queried twice at any point.
C4_ResumeRecheckOnce ==
  /\ (bkind = "resume" /\ lastOp = "run") => \A n \in DOMAIN bcount : bcount[n] <= 1
  /\ (bkind = "resume" /\ lastOp = "run" /\ pc = "collect1" /\ idx = 0) =>
       \A n \in DOMAIN bsnap :
         IF StatusValue(bsnap[n].status) \in {ANALYZING, COLLECTED}
         THEN /\ bcount[n] = 1
              /\ StatusValue(current_session.brands[n].status) =
                   IF lastres[n] \in {ANALYZED, ANALYZING, COLLECTED}
                   THEN lastres[n] ELSE StatusValue(bsnap[n].status)
         ELSE bcount[n] = 0

\* resume handling finished after the first re-query raised and the second
\* one found the report ready
C4_Witness ==
  /\ bkind = "resume" /\ lastOp = "run" /\ pc = "collect1" /\ idx = 0
  /\ Len(batch) = 2
  /\ lastres[batch[1]] = "raise"
  /\ lastres[batch[2]] = ANALYZED
  /\ current_session.brands[batch[2]].status = Enum(ANALYZED)

\* C5: create_session on an existing session gives the union of the existing
\* items and the supplied list; each existing item keeps status, attempts,
\* last_attempt and errors; each added item is pending with zero attempts;
\* the document on disk is the merged session.
C5_MergeKeepsExisting ==
  [][(state_file # NoDoc /\ lastOp' = "merge") =>
         LET old == state_file
             new == current_session'
         IN /\ Range(new.keys) = Range(old.keys) \cup Range(_parse_brands_source(lastArg'))
            /\ DOMAIN new.brands = Range(new.keys)
            /\ \A n \in Range(old.keys) :
                 /\ StatusValue(new.brands[n].status) = old.brands[n].status
                 /\ new.brands[n].attempts = old.brands[n].attempts
                 /\ new.brands[n].last_attempt = old.brands[n].last_attempt
                 /\ new.brands[n].errors = old.brands[n].errors
            /\ \A n \in Range(new.keys) \ Range(old.keys) :
                 /\ StatusValue(new.brands[n].status) = PENDING
                 /\ \A st \in Steps : new.brands[n].attempts[st] = 0
            /\ new.total_brands = Len(new.keys)
            /\ state_file' = DocOf(new)
    ]_vars

\* a merge that added a brand to a session holding a failed brand with an
\* error log
C5_Witness ==
  /\ lastOp = "merge"
  /\ \E n, m \in DOMAIN current_session.brands :
       /\ current_session.brands[n].status = Str(FAILED)
       /\ current_session.brands[n].errors # <<>>
       /\ current_session.brands[m].status = Enum(PENDING)
       /\ state_file.brands[m].status = PENDING

\* no two keys are equal ignoring letter case
NoCaseDup(keys) ==
  \A i, j \in 1..Len(keys) : i # j => Lower(keys[i]) # Lower(keys[j])

\* C6 (as claimed): merging a brand list into an existing session whose names
\* are distinct ignoring case leaves the names distinct ignoring case.
C6_MergeCaseInsensitive ==
  [][(state_file # NoDoc /\ NoCaseDup(state_file.keys) /\ lastOp' = "merge") =>
         NoCaseDup(current_session'.keys)
    ]_vars

\* first occurrence of every name of s that is new ignoring letter case
RECURSIVE CaseDedup(_, _)
CaseDedup(s, seen) ==
  IF s = <<>> THEN <<>>
  ELSE IF Lower(Head(s)) \in seen THEN CaseDedup(Tail(s), seen)
       ELSE <<Head(s)>> \o CaseDedup(Tail(s), seen \cup {Lower(Head(s))})

\* C7 (as claimed): a new session holds one item per case-insensitively
\* distinct name of the source list, first casing, first-seen order, and
\* total_brands is the number of items.
C7_CreateDedupsIgnoringCase ==
  [][(state_file = NoDoc /\ lastOp' = "create") =>
         /\ current_session'.keys = CaseDedup(_parse_brands_source(lastArg'), {})
         /\ DOMAIN current_session'.brands = Range(current_session'.keys)
         /\ current_session'.total_brands = Len(current_session'.keys)
    ]_vars

\* the status value that makes an item eligible for each executor
EligibleValues(kind) ==
  CASE kind = "collect" -> {PENDING}
    [] kind = "download" -> {ANALYZED}
    [] kind = "summarize" -> {DOWNLOADED}
    [] OTHER -> {ANALYZING, COLLECTED}

\* C8: an item that has received the executor call of the current batch (or
\* of the resume re-check) had that step's eligible status when the batch
\* selected its list; no item is called twice in a batch.
C8_OnlyEligibleCalled ==
  bkind # "none" =>
    \A n \in DOMAIN bcount :
      /\ bcount[n] <= 1
      /\ bcount[n] > 0 => StatusValue(bsnap[n].status) \in EligibleValues(bkind)

\* a fetch batch that called one item and left an analyzing one alone
C8_Witness ==
  /\ bkind = "download"
  /\ \E n, m \in DOMAIN bcount :
       /\ bcount[n] = 1 /\ bsnap[n].status = Enum(ANALYZED)
       /\ bcount[m] = 0 /\ StatusValue(bsnap[m].status) = ANALYZING

\* the status a batch gives for an executor result
ClaimedStatus(kind, before, out) ==
  CASE kind = "collect" ->
         IF out \in {NO_BRAND_FOUND, COLLECTED, ANALYZING, ANALYZED} THEN out ELSE FAILED
    [] kind = "download" -> IF out = "downloaded" THEN DOWNLOADED ELSE FAILED
    [] kind = "summarize" -> IF out = "text101" THEN SUMMARIZED ELSE FAILED
    [] kind = "recheck" -> IF out \in {ANALYZED, ANALYZING} THEN out ELSE before
    [] OTHER -> IF out \in {ANALYZED, ANALYZING, COLLECTED} THEN out ELSE before

\* C9: the step in which an executor call raises leaves the run going: the
\* batch moves to its next item, or past its last item to the next statement
\* of run_session; and when a batch in which a call raised is over, every
\* item of the batch's list has received its executor call and every item
\* whose own call did not raise has the status matching its own result.
C9_FailureIsolation ==
  [][/\ (pc # "idle" /\ idx > 0 /\ lastres'[batch[idx]] = "raise"
            /\ bcount'[batch[idx]] = bcount[batch[idx]] + 1) =>
          /\ lastOp' = "run"
          /\ pc' # "idle"
          /\ idx < Len(batch) => (idx' = idx + 1 /\ batch' = batch /\ pc' = pc)
     /\ (idx' = 0 /\ bkind' # "none" /\ pc' # "idle"
            /\ \E r \in DOMAIN lastres' : lastres'[r] = "raise") =>
          \A i \in 1..Len(batch') :
            LET m == batch'[i]
            IN /\ bcount'[m] = 1
               /\ lastres'[m] # "raise" =>
                    StatusValue(current_session'.brands[m].status) =
                      ClaimedStatus(bkind', StatusValue(bsnap'[m].status), lastres'[m])
    ]_vars

\* a trigger batch of two items whose first call raised and whose second
\* call found the report ready
C9_Witness ==
  /\ bkind = "collect" /\ idx = 0 /\ lastOp = "run"
  /\ Len(batch) = 2
  /\ lastres[batch[1]] = "raise"
  /\ lastres[batch[2]] = ANALYZED
  /\ current_session.brands[batch[2]].status = Enum(ANALYZED)

\* C10 (as claimed): when a trigger, fetch or post-process batch is over, an
\* item whose executor call raised is failed and its error list is not empty.
C10_RaisedItemFailedWithError ==
  (BatchOver /\ bkind \in {"collect", "download", "summarize"}) =>
    \A n \in DOMAIN lastres :
      lastres[n] = "raise" =>
        /\ StatusValue(current_session.brands[n].status) = FAILED
        /\ current_session.brands[n].errors # <<>>

\* statuses from which nothing more happens to an item within a run
TerminalValues == {FAILED, NO_BRAND_FOUND}

\* the items that are neither summarized nor terminal
Outstanding(s) ==
  {n \in DOMAIN s.brands :
     StatusValue(s.brands[n].status) \notin {SUMMARIZED} \cup TerminalValues}

\* C11 (as claimed): the first retry phase begins its wait only if some item
\* is outstanding after the initial pipeline; with every item summarized,
\* failed or no_brand_found no phase runs.
C11_NoRetryWhenAllDone ==
  (pc = "wait" /\ phase = 1 /\ lastOp = "run") => Outstanding(current_session) # {}

\* C12 (as claimed): at the top of every retry phase, if some item is
\* outstanding (neither summarized nor terminal), the phase is not skipped:
\* the scheduler goes on to its interim export and its wait.
C12_PhaseRunsWhenOutstanding ==
  [][(pc = "phase_check" /\ Outstanding(current_session) # {} /\ lastOp' = "run") =>
         pc' = "export"
    ]_vars

C14_InterruptPersists ==
  lastOp = "interrupted" => state_file = DocOf(current_session)

\* C15 (as claimed): the state file is never an emptied or partially written
\* document, whatever happens during a save.
C15_SaveAtomic == state_file # Truncated

\* C17: a load of an absent or malformed document fails without touching the
\* current session or the file, and a save whose write fails returns to the
\* caller (the manager stays usable) with the current session as it was.
C17_LoadSaveFailuresContained ==
  [][/\ (lastOp' \in {"load", "load_failed"} /\ ~Loadable(state_file)) =>
          /\ lastOp' = "load_failed"
          /\ current_session' = current_session
          /\ state_file' = state_file
     /\ lastOp' = "save_failed" =>
          /\ current_session' = current_session
          /\ pc' = "idle"
    ]_vars

\* a failed load of a malformed document while a session is in memory
C17_Witness ==
  /\ lastOp = "load_failed"
  /\ state_file = Truncated
  /\ current_session # NoSession

\* C16: when the "except Exception" handler of run_session has ended a run,
\* the run is over without the exception reaching the caller and the
\* document on disk is loadable and is the in-memory session.
C16_TopLevelErrorPersists ==
  lastOp = "run_error" =>
    /\ pc = "idle"
    /\ Loadable(state_file)
    /\ state_file = DocOf(current_session)
    /\ Equivalent(SessionOf(state_file), current_session)

\* an exception ended a run inside a trigger batch, after the first of two
\* items had got its result and before the second was called
C16_Witness ==
  /\ lastOp = "run_error"
  /\ bkind = "collect" /\ Len(batch) = 2
  /\ lastres[batch[1]] = ANALYZED
  /\ bcount[batch[2]] = 0

\* the operations that end with the manager inside or just out of run_session
RunOps == {"run", "run_done", "run_error", "interrupted"}

\* the edges of the item state machine as claimed, without the resume reset
ClaimedEdges ==
  {<<PENDING, COLLECTING>>,
   <<COLLECTING, NO_BRAND_FOUND>>, <<COLLECTING, COLLECTED>>,
   <<COLLECTING, ANALYZING>>, <<COLLECTING, ANALYZED>>,
   <<COLLECTED, ANALYZING>>, <<COLLECTED, ANALYZED>>,
   <<ANALYZING, ANALYZED>>, <<ANALYZED, ANALYZING>>,
   <<ANALYZED, DOWNLOADING>>,
   <<DOWNLOADING, DOWNLOADED>>, <<DOWNLOADING, FAILED>>,
   <<DOWNLOADED, SUMMARIZING>>,
   <<SUMMARIZING, SUMMARIZED>>, <<SUMMARIZING, FAILED>>}

\* the edges taken only by the reset of resume handling
ResetEdges == {<<FAILED, PENDING>>, <<NO_BRAND_FOUND, PENDING>>}

\* the claimed edges and the two more that run_session takes: a trigger call
\* that fails, and a resume re-query that finds an analyzing item collected
AmendedEdges == ClaimedEdges \cup {<<COLLECTING, FAILED>>, <<ANALYZING, COLLECTED>>}

\* the statuses an item has only while its executor call is running
TransientValues == {COLLECTING, DOWNLOADING, SUMMARIZING}

\* a change from a to b is one edge of E, or two edges through the transient
\* status of the call, or (in resume handling only) a reset edge
FollowsEdges(E, a, b, inReset) ==
  \/ a = b
  \/ <<a, b>> \in E
  \/ inReset /\ <<a, b>> \in ResetEdges
  \/ \E c \in TransientValues : <<a, c>> \in E /\ <<c, b>> \in E

\* every status change of a step of run_session follows the edges E; the
\* reset edges are open only to the step that enters run_session
StepFollows(E) ==
  lastOp' \in RunOps =>
    \A n \in DOMAIN current_session.brands :
      FollowsEdges(E, StatusValue(current_session.brands[n].status),
                      StatusValue(current_session'.brands[n].status), pc = "idle")

\* C18 (as claimed): every status change made by run_session follows one of
\* the claimed edges of the item state machine.
C18_OnlyClaimedEdges == [][StepFollows(ClaimedEdges)]_vars

\* C18 (amended): every status change made by run_session follows one of the
\* claimed edges, or collecting to failed, or (resume re-query) analyzing to
\* collected; failed and no_brand_found go to pending only in the reset of
\* resume handling.
C18_OnlyAmendedEdges == [][StepFollows(AmendedEdges)]_vars

\* a trigger batch has taken a pending item through collecting to failed
C18_Witness ==
  /\ bkind = "collect" /\ lastOp = "run"
  /\ \E n \in DOMAIN lastres :
       /\ lastres[n] = "error"
       /\ StatusValue(bsnap[n].status) = PENDING
       /\ current_session.brands[n].status = Enum(FAILED)

\* the step is an executor call for the item batch[idx]
CallStep == pc # "idle" /\ idx > 0 /\ bcount'[batch[idx]] = bcount[batch[idx]] + 1

\* the loop the call belongs to
CallKind == IF pc = "resume" THEN "resume" ELSE Kind(pc)

\* the results a re-query takes over as the item's status
Accepted(kind) ==
  IF kind = "resume" THEN {ANALYZED, ANALYZING, COLLECTED} ELSE {ANALYZED, ANALYZING}

\* an item becomes downloaded only in a fetch call that returned
\* "downloaded", summarized only in a post-process call that returned a text
\* longer than the minimum, and collected, analyzing or analyzed only in a
\* trigger or re-query call
StatusGainedByCall ==
  \A n \in DOMAIN current_session.brands :
    LET a == StatusValue(current_session.brands[n].status)
        b == StatusValue(current_session'.brands[n].status)
    IN a # b =>
         /\ b = DOWNLOADED =>
              /\ CallStep /\ n = batch[idx] /\ CallKind = "download"
              /\ lastres'[n] = "downloaded"
         /\ b = SUMMARIZED =>
              /\ CallStep /\ n = batch[idx] /\ CallKind = "summarize"
              /\ TextLen(lastres'[n]) > MinSummaryLen
         /\ b \in {COLLECTED, ANALYZING, ANALYZED} =>
              /\ CallStep /\ n = batch[idx]
              /\ CallKind \in {"collect", "recheck", "resume"}

\* C19 (as claimed): statuses are gained only by the matching executor
\* result, and after every trigger or re-query call an item that is
\* collected, analyzing or analyzed has exactly the result of that call.
C19_StatusMatchesLastResult ==
  [][lastOp' \in RunOps =>
       /\ StatusGainedByCall
       /\ (CallStep /\ CallKind \in {"collect", "recheck", "resume"}) =>
            LET n == batch[idx]
                b == StatusValue(current_session'.brands[n].status)
            IN b \in {COLLECTED, ANALYZING, ANALYZED} => lastres'[n] = b
    ]_vars

\* C19 (amended): statuses are gained only by the matching executor result,
\* and after every trigger or re-query call an item that is collected,
\* analyzing or analyzed has the result of that call, or the call was a
\* re-query whose result is not one the re-query takes over (or which raised)
\* and the item has the status it had before the call.
C19_StatusMatchesAcceptedResult ==
  [][lastOp' \in RunOps =>
       /\ StatusGainedByCall
       /\ (CallStep /\ CallKind \in {"collect", "recheck", "resume"}) =>
            LET n == batch[idx]
                a == StatusValue(current_session.brands[n].status)
                b == StatusValue(current_session'.brands[n].status)
            IN b \in {COLLECTED, ANALYZING, ANALYZED} =>
                 \/ lastres'[n] = b
                 \/ /\ CallKind \in {"recheck", "resume"}
                    /\ lastres'[n] \notin Accepted(CallKind)
                    /\ b = a
    ]_vars

\* a re-check got an unrecognised result for an analyzing item, which is
\* still analyzing
C19_Witness ==
  /\ bkind = "recheck" /\ lastOp = "run"
  /\ \E n \in DOMAIN lastres :
       /\ lastres[n] = "error"
       /\ bcount[n] = 1
       /\ StatusValue(current_session.brands[n].status) = ANALYZING

\* C20: inside a batch the document holds the results of all but at most
\* SaveEvery - 1 of the finished items, it is the in-memory session right
\* after every SaveEvery-th item, and it is the in-memory session whenever
\* the run is between two batches.
C20_PeriodicSave ==
  /\ (pc \in BatchPcs /\ idx > 0) =>
       LET mem == DocOf(current_session)
           unsaved == {i \in 1..(idx - 1) : mem.brands[batch[i]] # state_file.brands[batch[i]]}
       IN /\ Cardinality(unsaved) < SaveEvery
          /\ (idx - 1) % SaveEvery = 0 => state_file = mem
  /\ (pc # "idle" /\ idx = 0) => state_file = DocOf(current_session)

\* a batch of more than SaveEvery items has finished its SaveEvery-th item
\* and the document holds that item's result
C20_Witness ==
  /\ pc \in BatchPcs /\ idx = SaveEvery + 1
  /\ Len(batch) > SaveEvery
  /\ state_file.brands[batch[SaveEvery]].status # PENDING
  /\ state_file.brands[batch[1]].status # PENDING

\* the waits of the four phases as claimed, in minutes
ClaimedWaitMinutes == <<5, 10, 30, 60>>

\* the step that follows each step of an executed phase, as claimed
ClaimedNextStep(p, ph) ==
  CASE p = "export" -> "wait"
    [] p = "wait" -> "recheck"
    [] p = "recheck" -> "downloadB"
    [] p = "downloadB" -> "summarizeC"
    [] p = "summarizeC" -> IF ph = 4 THEN "collectD" ELSE "phase_check"
    [] p = "collectD" -> "downloadE"
    [] p = "downloadE" -> "summarizeF"
    [] OTHER -> "finish"

PhaseSteps == {"export", "wait", "recheck", "downloadB", "summarizeC",
               "collectD", "downloadE", "summarizeF"}

\* C21: an executed retry phase performs, in this order, the interim export,
\* a wait of the phase's full duration (5, 10, 30, 60 minutes for phases
\* 1..4), the recheck batch, the fetch batch and the post-process batch; only
\* the last phase goes on to a trigger batch, a fetch batch and a post-process
\* batch; a batch is left only when its list is empty or its last item is
\* done; the phases are taken in increasing order.
C21_PhaseStepsInOrder ==
  [][(lastOp = "run" /\ lastOp' = "run" /\ pc \in PhaseSteps /\ pc' # pc) =>
        /\ pc' = ClaimedNextStep(pc, phase)
        /\ phase \in 1..Len(ClaimedWaitMinutes)
        /\ phase' = IF pc' = "phase_check" THEN phase + 1 ELSE phase
        /\ pc = "wait" =>
             SleepFrom(retry_phases[phase].wait_seconds) = 60 * ClaimedWaitMinutes[phase]
        /\ pc \in BatchPcs =>
             \/ idx = 0 /\ SelectBatch(current_session, Kind(pc)) = <<>>
             \/ idx > 0 /\ idx = Len(batch)
        /\ pc \in {"collectD", "downloadE", "summarizeF"} => phase = 4
    ]_vars

\* the last phase has run its trigger and fetch batches and stands at its
\* final post-process batch
C21_Witness ==
  /\ pc = "summarizeF" /\ phase = 4 /\ lastOp = "run"
  /\ bkind = "download"

\* C22: while a session has never finished a run its completed_at is null in
\* memory and in the document; the step that follows the scheduler loop, and
\* only that step, stamps it in both; every other step of a run, an
\* interrupt and a top-level error included, leaves it null in both.
C22_CompletedAtOnlyAtEnd ==
  [][(current_session # NoSession /\ current_session.completed_at = "null"
        /\ lastOp' \in RunOps) =>
        /\ state_file.completed_at = "null"
        /\ IF pc = "finish"
           THEN /\ current_session'.completed_at = "stamped"
                /\ state_file'.completed_at = "stamped"
           ELSE /\ current_session'.completed_at = "null"
                /\ state_file'.completed_at = "null"
    ]_vars

\* a run that went through a retry phase was interrupted and the session is
\* still not stamped, in memory and on disk
C22_Witness ==
  /\ lastOp = "interrupted" /\ phase > 1
  /\ current_session.completed_at = "null"
  /\ state_file.completed_at = "null"

\* C23 (as claimed): with every executor call and every wait returning, a
\* started run always reaches its completion: completed_at stamped in memory
\* and in the document and the exporter invoked, after at most NumPhases
\* retry phases.
C23_RunCompletes ==
  (pc # "idle") ~>
     (/\ pc = "idle" /\ lastOp = "run_done"
      /\ phase <= NumPhases
      /\ current_session.completed_at = "stamped"
      /\ state_file.completed_at = "stamped")

\* the same for the sessions that have at least one item
C23_RunWithItemsCompletes ==
  (pc # "idle" /\ current_session.total_brands > 0) ~>
     (/\ pc = "idle" /\ lastOp = "run_done"
      /\ phase <= NumPhases
      /\ current_session.completed_at = "stamped"
      /\ state_file.completed_at = "stamped")

\* the item n got its call in the current batch and the call returned res
GotResult(n, res) == bcount[n] = 1 /\ lastres[n] = res

\* the batch of the initial pipeline, of the given kind, is running or has
\* just returned
InitialBatch(kind, here, after) ==
  /\ lastOp = "run" /\ phase = 1 /\ bkind = kind
  /\ \/ pc = here
     \/ pc = after /\ idx = 0

\* C24: in the initial pipeline an item whose trigger call returns analyzed
\* is analyzed and is taken by the fetch batch, an item whose fetch call
\* returns downloaded is downloaded and is taken by the post-process batch,
\* and an item whose post-process call returns text longer than the minimum
\* is summarized; an item whose trigger call returns no_brand_found is
\* no_brand_found and is left alone by the later batches; and the run enters
\* an interim export or a wait only if some item is neither summarized nor
\* no_brand_found.
C24_HappyPathNoWait ==
  /\ InitialBatch("collect", "collect1", "download1") =>
       \A n \in DOMAIN lastres :
         /\ GotResult(n, "analyzed") => current_session.brands[n].status = Enum(ANALYZED)
         /\ GotResult(n, "no_brand_found") =>
              current_session.brands[n].status = Enum(NO_BRAND_FOUND)
  /\ InitialBatch("download", "download1", "summarize1") =>
       \A n \in DOMAIN lastres :
         /\ bsnap[n].status = Enum(ANALYZED) => n \in Range(batch)
         /\ GotResult(n, "downloaded") => current_session.brands[n].status = Enum(DOWNLOADED)
         /\ bsnap[n].status = Enum(NO_BRAND_FOUND) =>
              current_session.brands[n].status = Enum(NO_BRAND_FOUND)
  /\ InitialBatch("summarize", "summarize1", "phase_check") =>
       \A n \in DOMAIN lastres :
         /\ bsnap[n].status = Enum(DOWNLOADED) => n \in Range(batch)
         /\ GotResult(n, "text101") => current_session.brands[n].status = Enum(SUMMARIZED)
         /\ bsnap[n].status = Enum(NO_BRAND_FOUND) =>
              current_session.brands[n].status = Enum(NO_BRAND_FOUND)
  /\ (pc \in {"export", "wait"} /\ lastOp = "run") =>
       \E n \in DOMAIN current_session.brands :
         current_session.brands[n].status \notin {Enum(SUMMARIZED), Enum(NO_BRAND_FOUND)}

\* the initial pipeline of a two-item session has ended with one item
\* summarized and the other one not found
C24_Witness ==
  /\ pc = "phase_check" /\ phase = 1 /\ lastOp = "run" /\ bkind = "summarize"
  /\ \E n, m \in DOMAIN current_session.brands :
       /\ GotResult(n, "text101")
       /\ current_session.brands[n].status = Enum(SUMMARIZED)
       /\ current_session.brands[m].status = Enum(NO_BRAND_FOUND)

\* C26 (as claimed): once a session exists, no operation changes a field of
\* its config: not in memory, whenever a session is held before and after
\* the step, and not in the document, whenever a readable document exists
\* before and after the step.
C26_ConfigFrozen ==
  [][/\ (current_session # NoSession /\ current_session' # NoSession) =>
          current_session'.config = current_session.config
     /\ (Loadable(state_file) /\ Loadable(state_file')) =>
          state_file'.config = state_file.config
     /\ (Loadable(state_file) /\ current_session' # NoSession) =>
          current_session'.config = state_file.config
    ]_vars

\* the same for the steps that start from a readable document
C26_ConfigFrozenWhileLoadable ==
  [][Loadable(state_file) =>
       /\ (current_session # NoSession /\ current_session' # NoSession) =>
            current_session'.config = current_session.config
       /\ Loadable(state_file') => state_file'.config = state_file.config
       /\ current_session' # NoSession => current_session'.config = state_file.config
    ]_vars

\* the session items whose name equals the text t without regard to case
ItemsMatching(s, t) == {k \in Range(s.keys) : Lower(k) = Lower(t)}

\* the cell claimed for a row whose brand value is compared as the text t
ClaimedCell(s, fs, t, data) ==
  IF ItemsMatching(s, t) = {}
  THEN data = "Brand not processed in this session"
  ELSE \E m \in ItemsMatching(s, t) :
         IF SummaryFile(m) \in DOMAIN fs.summary
         THEN data = fs.summary[SummaryFile(m)].text
         ELSE data = "Summary Status: " \o StatusValue(s.brands[m].status)

\* a row whose brand value is missing or blank
BlankRow(cell) == cell = "NaN" \/ Strip(cell) = ""

\* C25 (as claimed): the exported table has one row per row of the original
\* table, in the same order; a row with a blank brand is left without data;
\* the data cell of any other row holds the content of the processed
\* artifact of a session item that its brand value matches without regard
\* to case, or "Summary Status: <status>" if that item has no processed
\* artifact, or the not-processed marker if no session item matches.
C25_ExportCells ==
  \A i \in 1..Len(files.out) :
    LET row == files.out[i]
    IN IF BlankRow(row.brand) THEN row.data = ""
       ELSE ClaimedCell(current_session, files, row.brand, row.data)

\* the same with the brand value of the row stripped before it is compared
C25_ExportCellsOfStrippedBrand ==
  \A i \in 1..Len(files.out) :
    LET row == files.out[i]
    IN IF BlankRow(row.brand) THEN row.data = ""
       ELSE ClaimedCell(current_session, files, Strip(row.brand), row.data)

\* C27 (as claimed): two distinct items of a session have distinct report
\* files and distinct summary files, so that the report served from the
\* folder without a download was written for the item it is served to, and
\* every summary file present was written for an item and is found under
\* that item's name only.
C27_DistinctArtifactPaths ==
  /\ \A n, m \in Range(current_session.keys) :
       n # m => HtmlFile(n) # HtmlFile(m) /\ SummaryFile(n) # SummaryFile(m)
  /\ fetch.cached => files.html[HtmlFile(fetch.brand)].by = fetch.brand
  /\ \A n \in Range(current_session.keys) :
       SummaryFile(n) \in DOMAIN files.summary => files.summary[SummaryFile(n)].by = n

\* C28: a fetch call whose first saved report is undersized saves the report
\* once more, after the extended wait, and only once; its result is that of
\* the second save, "incomplete" if the second file is undersized too, and
\* the batch then marks the item failed; a call whose first file is complete
\* saves once; no call saves more than twice.
C28_OneRetryThenFailed ==
  /\ Len(fetch.waits) <= 2
  /\ (fetch.page.kind = "ok" /\ ~fetch.cached) =>
       IF fetch.page.sizes[1] < MinHtmlSize
       THEN /\ fetch.waits = <<10, 15>>
            /\ fetch.result = IF fetch.page.sizes[2] < MinHtmlSize
                              THEN "incomplete" ELSE "downloaded"
            /\ files.html[HtmlFile(fetch.brand)].size = fetch.page.sizes[2]
       ELSE /\ fetch.waits = <<10>>
            /\ fetch.result = "downloaded"
  /\ fetch.result = "incomplete" =>
       current_session.brands[fetch.brand].status = Enum(FAILED)

\* a fetch call has saved two undersized files and its item is failed
C28_Witness ==
  /\ fetch.result = "incomplete" /\ Len(fetch.waits) = 2
  /\ fetch.page.sizes = <<MinHtmlSize - 1, MinHtmlSize - 1>>
  /\ current_session.brands[fetch.brand].status = Enum(FAILED)

\* C29 (as claimed): when a fetch batch stands between two of its executor
\* calls, the runner has slept for its pacing delay since the call before,
\* unless that call served a complete report from the folder, in which case
\* it has not slept.
C29_PacingBetweenCalls ==
  (pc \in BatchPcs /\ Kind(pc) = "download" /\ idx > 1 /\ fetch.brand = batch[idx - 1]) =>
     IF fetch.cached THEN fetch.delay = 0 ELSE fetch.delay > 0

\* the item's trigger call of this run ended in failed and no later step has
\* touched the item
FailedAtTrigger(s, n) ==
  /\ s.brands[n].status = Enum(FAILED)
  /\ s.brands[n].attempts["collect"] = 1
  /\ s.brands[n].attempts["download"] = 0

\* C30 (as claimed): when the final phase reaches its collect step, every
\* item whose trigger step ended in failed during this run is in the list
\* of that step, that is, gets the trigger executor once more.
C30_FinalPhaseRetriesFailedCollect ==
  [][(pc = "collectD" /\ idx = 0 /\ lastOp' = "run") =>
        \A n \in Range(current_session.keys) :
          FailedAtTrigger(current_session, n) => n \in Range(batch')
    ]_vars

\* the texts that summarize_html returns in place of a summary
FailureMarkers == {"HTML file not found", "Error generating summary: long message",
                   "Error generating summary: brief"}

\* C31 (as claimed): a post-process call that returns a failure marker, of
\* whatever length, leaves its item failed and completed_brands as it was.
C31_FailureMarkerFails ==
  [][(CallStep /\ CallKind = "summarize" /\ lastres'[batch[idx]] \in FailureMarkers) =>
        /\ current_session'.brands[batch[idx]].status = Enum(FAILED)
        /\ current_session'.completed_brands = current_session.completed_brands
    ]_vars

\* C32: a fetch call for an item whose report file exists with at least
\* MinHtmlSize bytes, force_regenerate being false, returns "downloaded"
\* without an upstream call and leaves the folders as they are; when the
\* file is smaller or absent, or force_regenerate is true, the call goes
\* upstream, and if the report page is found the file is written anew.
C32_CompleteReportServedFromFolder ==
  [][(CallStep /\ CallKind = "download") =>
        LET n == batch[idx]
            p == HtmlFile(n)
        IN IF /\ ~current_session.config.force_regenerate
              /\ p \in DOMAIN files.html
              /\ files.html[p].size >= MinHtmlSize
           THEN /\ fetch'.cached /\ fetch'.waits = <<>>
                /\ lastres'[n] = "downloaded"
                /\ files' = files
           ELSE /\ ~fetch'.cached
                /\ fetch'.page.kind = "ok" =>
                     /\ Len(fetch'.waits) >= 1
                     /\ files'.html[p].by = n
                     /\ files'.html[p].size = fetch'.page.sizes[Len(fetch'.waits)]
    ]_vars

\* a complete report left by an earlier run was served to its item, which
\* is downloaded, and the file is as it was
C32_Witness ==
  /\ fetch.cached /\ fetch.brand = "Beta" /\ fetch.waits = <<>>
  /\ ~current_session.config.force_regenerate
  /\ current_session.brands["Beta"].status = Enum(DOWNLOADED)
  /\ files.html[HtmlFile("Beta")] = [size |-> MinHtmlSize, by |-> "Beta"]

\* number of items of a document whose status is summarized
SummarizedInDoc(d) ==
  Cardinality({n \in DOMAIN d.brands : d.brands[n].status = SUMMARIZED})

\* number of items of a session in memory whose status is summarized
SummarizedInMemory(s) ==
  Cardinality({n \in DOMAIN s.brands : StatusValue(s.brands[n].status) = SUMMARIZED})

\* C33: in every readable document, and in memory whenever no batch is in
\* the middle of its list, completed_brands is the number of summarized
\* items.
C33_CompletedCountsSummarized ==
  /\ Loadable(state_file) =>
       state_file.completed_brands = SummarizedInDoc(state_file)
  /\ (current_session # NoSession /\ idx = 0) =>
       current_session.completed_brands = SummarizedInMemory(current_session)

\* a run has saved a document in which one item of two is summarized and
\* counted
C33_Witness ==
  /\ lastOp = "run" /\ pc = "phase_check"
  /\ Loadable(state_file)
  /\ state_file.completed_brands = 1
  /\ Cardinality(DOMAIN state_file.brands) = 2

\* C34: across runs and resumes total_brands is the number of items of the
\* session, completed_brands + failed_brands never exceeds it, and so
\* failed_brands never exceeds the number of items
C34_CountersWithinTotal ==
  current_session # NoSession =>
    LET s == current_session
        items == Cardinality(DOMAIN s.brands)
    IN /\ s.total_brands = items
       /\ s.completed_brands + s.failed_brands <= s.total_brands
       /\ s.failed_brands <= items

\* C35: whenever the scheduler is inside an inter-phase wait, the document
\* on disk is the in-memory session: every status, attempt counter, error
\* list and session counter
C35_WaitOnSavedState ==
  pc = "wait" => state_file = DocOf(current_session)

C35_Witness ==
  /\ pc = "wait"
  /\ lastOp = "run"
  /\ bkind = "summarize"
  /\ \E n \in DOMAIN bcount : bcount[n] = 1
  /\ state_file = DocOf(current_session)

\* C36: no document written while a session runs records an in-flight status
\* (collecting, downloading, summarizing): every status in the document is one
\* of pending, no_brand_found, collected, analyzing, analyzed, downloaded,
\* summarized, failed
C36_NoTransientStatusOnDisk ==
  Loadable(state_file) =>
    \A n \in DOMAIN state_file.brands :
      /\ state_file.brands[n].status \notin TransientValues
      /\ state_file.brands[n].status \in PersistedStatuses

\* a run was interrupted while a fetch was in flight: the session in memory
\* holds the in-flight status, the document the status saved by the trigger
\* batch
C36_Witness ==
  /\ lastOp = "interrupted"
  /\ bkind = "download"
  /\ Loadable(state_file)
  /\ \E n \in DOMAIN current_session.brands :
       /\ bcount[n] = 1
       /\ StatusValue(current_session.brands[n].status) = DOWNLOADING
       /\ state_file.brands[n].status = ANALYZED

C39_EmptySessionRunCompletes ==
  [][(pc = "finish" /\ pc' = "idle" /\ current_session.total_brands = 0) =>
       /\ DOMAIN ran' = {}
       /\ current_session'.completed_at = "stamped"
       /\ state_file'.completed_at = "stamped"
       /\ lastOp' = "run_done"
    ]_vars

====
